---- MODULE Spec2Model ----
(***************************************************************************)
(* Tick-driven task scheduler of the plugin API                            *)
(* (pumpkin/src/plugin/api/task/mod.rs).                                   *)
(*                                                                         *)
(* TaskScheduler { tasks: Mutex<Vec<ScheduledTask>>, tick_count: AtomicU64 }*)
(* with schedule_once, schedule_repeating and tick.  Every cancel flag is  *)
(* a shared Arc<AtomicBool>; handlers are dispatched with tokio::spawn and *)
(* run outside the scheduler.                                              *)
(*                                                                         *)
(* u64 values are modelled by 0 .. U64Range-1 and `+` on them wraps, which *)
(* is what the additions of mod.rs do in a build without overflow checks   *)
(* (with overflow checks the same additions panic instead).                *)
(***************************************************************************)
EXTENDS Integers, Sequences, FiniteSets, TLC

\* ------------------------------------------------------------------ bounds
\* u64 is modelled by 0 .. U64Range-1.
U64Range == 16
\* tick() is called at most MaxTick times.
MaxTick == 3
\* At most MaxTasks schedule_* calls are made.
MaxTasks == 2
\* delay_ticks / interval_ticks are drawn from 0 .. MaxDelay and U64Max.
MaxDelay == 2
\* ScheduledHandle::cancel is called at most MaxHandleCancels times per task.
MaxHandleCancels == 2

U64Max == U64Range - 1
Args == (0 .. MaxDelay) \cup {U64Max}
Ids == 1 .. MaxTasks

\* The threads of the concurrent specification: two callers of tick(), a
\* caller of schedule_* outside any handler, and the body of a spawned run()
\* that calls schedule_* on the same scheduler.
TickProcs == {"t1", "t2"}
SchedProcs == {"s1", "h1"}
Procs == TickProcs \cup SchedProcs

VARIABLES
    tasks,       \* TaskScheduler.tasks: the Vec behind the mutex, in order
    tick_count,  \* TaskScheduler.tick_count
    flags,       \* the Arc<AtomicBool> cancel flags, by task id
    created,     \* number of schedule_* calls so far (the next id is created+1)
    spawned,     \* tokio tasks in flight: how many run() and how many cancel()
    hist,        \* observation: per id, what was scheduled and dispatched
    tick_calls,  \* observation: number of tick() calls made
    panicked,    \* observation: counter value at the first handler panic, or -1
    pc,          \* concurrent callers: where each thread is in its call
    loc,         \* concurrent callers: the locals of each thread's call
    lock,        \* concurrent callers: the holder of the `tasks` mutex, or "free"
    scans,       \* observation: the retain_mut scans made, in order
    handlers,    \* the handler objects the task macros build, by task id
    exec,        \* observation: per id, what the handler bodies executed
    tm,          \* the run_task_timer! call of task/macros.rs in progress
    registry,    \* event bus: the registered listeners, in stored order
    registered,  \* event bus: number of registrations made so far
    rw,          \* PLUGIN_MANAGER: the RwLock around the plugin manager
    call,        \* the send_cancellable! expansions in progress, by caller
    fired,       \* observation: number of send_cancellable! expansions started
    sign,        \* a SignChangeEvent and the last set_line call made on it
    pdc,         \* a PersistentDataContainer and the last call made on it
    nbt,         \* the last from_pdc call and the to_pdc of its result
    combat,      \* the pvp configuration, GLOBAL_COMBAT_PROFILE, the last attack
    once         \* an InlineOnceHandler and the run() calls made on it

\* What the scheduler operations called one at a time leave alone.
ext == <<pc, loc, lock, scans, handlers, exec, tm>>

\* The state outside the task module, which no operation of it touches.
parts == <<registry, registered, rw, call, fired, sign, pdc, nbt, combat, once>>

\* The state of the event bus.
bus == <<registry, registered, rw, call, fired>>

\* The state of the task module, which no operation outside it touches.
sched == <<tasks, tick_count, flags, created, spawned, hist, tick_calls, panicked,
           pc, loc, lock, scans, handlers, exec, tm>>

vars == <<tasks, tick_count, flags, created, spawned, hist, tick_calls, panicked,
          pc, loc, lock, scans, handlers, exec, tm,
          registry, registered, rw, call, fired, sign, pdc, nbt, combat,
          once>>

\* ----------------------------------------------------------- arithmetic
\* `a + b` on u64 (mod.rs:51, 69, 108), wrapping.
U64Add(a, b) == (a + b) % U64Range

\* ------------------------------------------------------------ task types
\* ScheduledTaskType::Later { run_at_tick }
Later(run_at_tick) == [tag |-> "Later", run_at_tick |-> run_at_tick]

\* ScheduledTaskType::Timer { interval_ticks, next_run_tick }
Timer(interval_ticks, next_run_tick) ==
    [tag |-> "Timer", interval_ticks |-> interval_ticks,
     next_run_tick |-> next_run_tick]

\* ScheduledTask { task_type, handler, cancel_flag }: the handler and the
\* flag are named by the id of the schedule_* call that created them.
ScheduledTask(task_type, id) ==
    [task_type |-> task_type, handler |-> id, cancel_flag |-> id]

\* The due tick of a pending task.
DueTick(task) ==
    IF task.task_type.tag = "Later" THEN task.task_type.run_at_tick
    ELSE task.task_type.next_run_tick

\* The ids of the pending tasks.
Pending == {tasks[i].handler : i \in 1 .. Len(tasks)}

\* The pending task of an id that is pending.
TaskOf(id) == tasks[CHOOSE i \in 1 .. Len(tasks) : tasks[i].handler = id]

\* -------------------------------------------------------------- history
NoHist == [kind |-> "none", t |-> 0, arg |-> 0, runs |-> 0, first_run |-> -1,
           last_run |-> -1, cancels |-> 0, evals |-> 0, set_at |-> -1,
           runs_at_set |-> 0]

NewHist(kind, t, arg) == [NoHist EXCEPT !.kind = kind, !.t = t, !.arg = arg]

\* The locals of a call: the counter value it read, and its arguments.
NoLoc == [current_tick |-> 0, kind |-> "none", arg |-> 0]

\* No handler object built by a macro for this id.
NoHandler == [kind |-> "plain", cancel_flag |-> FALSE, future |-> "none"]

\* Nothing executed for this id.
NoExec == [by |-> "schedule", started |-> 0, body_at_call |-> 0,
           body_at_run |-> 0, direct_cancels |-> 0, set_at |-> -1,
           runs_at_set |-> 0]

\* No run_task_timer! call of task/macros.rs in progress.
NoTm == [pos |-> "none", depth |-> 0, cell_locked |-> FALSE, interval |-> 0,
         t0 |-> 0]

\* ------------------------------------------------------------ event bus
\* The event kinds, the listener priorities and the tasks that expand
\* send_cancellable!.
Kinds == {"X", "Y"}
Priorities == {0, 10}
Callers == {"c1"}

\* An event with the field that #[cancellable] adds.
Event(kind, cancelled) == [kind |-> kind, cancelled |-> cancelled]

\* No send_cancellable! expansion in progress.
NoCall == [pos |-> "idle", event |-> Event("X", FALSE), has_after |-> FALSE,
           has_cancelled |-> FALSE, guard |-> FALSE, idx |-> 0, cur |-> "none",
           snapshot |-> <<>>, log |-> <<>>, ran |-> {}]

\* ------------------------------------------------- events and persistence
\* No SignChangeEvent constructed yet.
NoSign == [state |-> "none", content |-> <<>>, before |-> <<>>,
           index |-> 0, line |-> ""]

\* PersistentDataContainer::new(): an empty map, no call made yet.
NoPdc == [data |-> {}, op |-> "none", namespace |-> <<>>, key |-> <<>>,
          result |-> [ok |-> FALSE, err |-> "none"], value |-> 0]

\* No configuration loaded, GLOBAL_COMBAT_PROFILE not yet initialised, no
\* attack classified.
NoAttack == [sprinting |-> FALSE, on_ground |-> FALSE, fall_distance |-> 0,
             sword |-> FALSE, attack_cooldown_progress |-> 0, result |-> "none"]
\* The callers of InlineOnceHandler::run, and how often each calls it.
Runners == {"r1", "r2", "r3"}
MaxRuns == 2

\* A caller that has not called run(), and the handler before the macro
\* has built it.
NoRun == [pos |-> "idle", calls |-> 0, flag_at_start |-> FALSE, fut |-> "none",
          awaited |-> FALSE]
NoOnce == [built |-> FALSE, cancel_flag |-> FALSE, future |-> "none",
           mutex |-> "free", awaited |-> 0, run |-> [r \in Runners |-> NoRun]]

NoCombat == [combat_type |-> <<>>, loaded |-> FALSE, profile |-> "unset",
             warned |-> FALSE, inits |-> 0, attack |-> NoAttack]

\* No from_pdc call made yet.
NoNbt == [state |-> "none", of |-> {}, compound |-> {}, back |-> {}]

\* --------------------------------------------------------------- Init
\* TaskScheduler::new
Init ==
    /\ tasks = <<>>
    /\ tick_count = 0
    /\ flags = [id \in Ids |-> FALSE]
    /\ created = 0
    /\ spawned = [run |-> 0, cancel |-> 0]
    /\ hist = [id \in Ids |-> NoHist]
    /\ tick_calls = 0
    /\ panicked = -1
    /\ pc = [p \in Procs |-> "idle"]
    /\ loc = [p \in Procs |-> NoLoc]
    /\ lock = "free"
    /\ scans = <<>>
    /\ handlers = [id \in Ids |-> NoHandler]
    /\ exec = [id \in Ids |-> NoExec]
    /\ tm = NoTm
    /\ registry = <<>>
    /\ registered = 0
    /\ rw = [readers |-> 0, writer |-> "none"]
    /\ call = [c \in Callers |-> NoCall]
    /\ fired = 0
    /\ sign = NoSign
    /\ pdc = NoPdc
    /\ nbt = NoNbt
    /\ combat = NoCombat
    /\ once = NoOnce

\* ------------------------------------------------------- schedule_once
\* The task schedule_once pushes when the counter is current_tick.
OnceTask(current_tick, delay_ticks, id) ==
    ScheduledTask(Later(U64Add(current_tick, delay_ticks)), id)

ScheduleOnce(delay_ticks) ==
    /\ created < MaxTasks
    /\ LET id == created + 1
           current_tick == tick_count
       IN /\ flags' = [flags EXCEPT ![id] = FALSE]
          /\ tasks' = Append(tasks, OnceTask(current_tick, delay_ticks, id))
          /\ created' = id
          /\ hist' = [hist EXCEPT ![id] = NewHist("Later", current_tick, delay_ticks)]
    /\ UNCHANGED <<tick_count, spawned, tick_calls, panicked>>
    /\ UNCHANGED ext
    /\ UNCHANGED parts

\* -------------------------------------------------- schedule_repeating
\* The task schedule_repeating pushes when the counter is current_tick.
RepeatingTask(current_tick, interval_ticks, id) ==
    ScheduledTask(Timer(interval_ticks, U64Add(current_tick, interval_ticks)), id)

ScheduleRepeating(interval_ticks) ==
    /\ created < MaxTasks
    /\ LET id == created + 1
           current_tick == tick_count
       IN /\ flags' = [flags EXCEPT ![id] = FALSE]
          /\ tasks' = Append(tasks, RepeatingTask(current_tick, interval_ticks, id))
          /\ created' = id
          /\ hist' = [hist EXCEPT ![id] = NewHist("Timer", current_tick, interval_ticks)]
    /\ UNCHANGED <<tick_count, spawned, tick_calls, panicked>>
    /\ UNCHANGED ext
    /\ UNCHANGED parts

\* ------------------------------------------------------------ token set
\* Mutant of ReturnedFlag: the caller gets a flag that is not the one stored
\* in its task.
ReturnedFlagOfOther(id) == (id % MaxTasks) + 1

\* The `cancel_flag` that the schedule_* call creating task id returns
\* (mod.rs:56, 74): the Arc whose clone was put into the pushed task.
ReturnedFlag(id) == id

\* Mutant of SetToken: the store flips the flag.
SetTokenFlips(id) ==
    /\ id <= created
    /\ flags' = [flags EXCEPT ![ReturnedFlag(id)] = ~@]
    /\ hist' = [hist EXCEPT ![id] =
                  IF flags[ReturnedFlag(id)] THEN @
                  ELSE [@ EXCEPT !.set_at = tick_count,
                                 !.runs_at_set = hist[id].runs]]
    /\ UNCHANGED <<tasks, tick_count, created, spawned, tick_calls, panicked>>
    /\ UNCHANGED ext
    /\ UNCHANGED parts

\* cancel_flag.store(true, Relaxed) on the flag a schedule_* call returned.
SetToken(id) ==
    /\ id <= created
    /\ flags' = [flags EXCEPT ![ReturnedFlag(id)] = TRUE]
    /\ hist' = [hist EXCEPT ![id] =
                  IF flags[ReturnedFlag(id)] THEN @
                  ELSE [@ EXCEPT !.set_at = tick_count,
                                 !.runs_at_set = hist[id].runs]]
    /\ UNCHANGED <<tasks, tick_count, created, spawned, tick_calls, panicked>>
    /\ UNCHANGED ext
    /\ UNCHANGED parts

\* ----------------------------------------------------------------- tick
\* Mutant of TaskCancelled: the scan never sees the flag the caller holds.
TaskCancelledNever(task) == FALSE

\* task.cancel_flag.load(Relaxed) (mod.rs:83)
TaskCancelled(task) == flags[task.cancel_flag]

\* `*run_at_tick <= current_tick` / `*next_run_tick <= current_tick`
IsDue(task, current_tick) == DueTick(task) <= current_tick

\* Mutant of Reschedule: the next due tick is counted from the previous one.
RescheduleFromDue(task, current_tick) ==
    [task EXCEPT !.task_type.next_run_tick =
        U64Add(task.task_type.next_run_tick, task.task_type.interval_ticks)]

\* Mutant of Reschedule: the interval is overwritten along with the due tick.
RescheduleOverwritesInterval(task, current_tick) ==
    [task EXCEPT !.task_type.next_run_tick =
                    U64Add(current_tick, task.task_type.interval_ticks),
                 !.task_type.interval_ticks = U64Add(@, 1)]

\* `*next_run_tick = current_tick + *interval_ticks`
Reschedule(task, current_tick) ==
    [task EXCEPT !.task_type.next_run_tick =
        U64Add(current_tick, task.task_type.interval_ticks)]

\* Mutant of RetainStep: the cancel check guards the Later arm only.
RetainStepTimerIgnoresCancel(task, current_tick) ==
    IF task.task_type.tag = "Later"
    THEN IF flags[task.cancel_flag]
         THEN [keep |-> FALSE, task |-> task, spawn |-> "cancel"]
         ELSE IF task.task_type.run_at_tick <= current_tick
         THEN [keep |-> FALSE, task |-> task, spawn |-> "run"]
         ELSE [keep |-> TRUE, task |-> task, spawn |-> "none"]
    ELSE IF task.task_type.next_run_tick <= current_tick
         THEN [keep |-> TRUE,
               task |-> [task EXCEPT !.task_type.next_run_tick =
                            U64Add(current_tick, task.task_type.interval_ticks)],
               spawn |-> "run"]
         ELSE [keep |-> TRUE, task |-> task, spawn |-> "none"]

\* Mutant of RetainStep: the due check comes before the cancel check.
RetainStepDueFirst(task, current_tick) ==
    IF task.task_type.tag = "Later" /\ task.task_type.run_at_tick <= current_tick
    THEN [keep |-> FALSE, task |-> task, spawn |-> "run"]
    ELSE IF task.task_type.tag = "Timer"
            /\ task.task_type.next_run_tick <= current_tick
    THEN [keep |-> TRUE,
          task |-> [task EXCEPT !.task_type.next_run_tick =
                       U64Add(current_tick, task.task_type.interval_ticks)],
          spawn |-> "run"]
    ELSE IF flags[task.cancel_flag]
    THEN [keep |-> FALSE, task |-> task, spawn |-> "cancel"]
    ELSE [keep |-> TRUE, task |-> task, spawn |-> "none"]

\* Mutant of RetainStep: the Later arm keeps the task it has dispatched.
RetainStepKeepsOnce(task, current_tick) ==
    IF flags[task.cancel_flag]
    THEN [keep |-> FALSE, task |-> task, spawn |-> "cancel"]
    ELSE IF task.task_type.tag = "Later"
    THEN IF task.task_type.run_at_tick <= current_tick
         THEN [keep |-> TRUE, task |-> task, spawn |-> "run"]
         ELSE [keep |-> TRUE, task |-> task, spawn |-> "none"]
    ELSE IF task.task_type.next_run_tick <= current_tick
         THEN [keep |-> TRUE,
               task |-> [task EXCEPT !.task_type.next_run_tick =
                            U64Add(current_tick, task.task_type.interval_ticks)],
               spawn |-> "run"]
         ELSE [keep |-> TRUE, task |-> task, spawn |-> "none"]

\* The closure given to retain_mut, on one task: whether the task is kept,
\* the task as the closure leaves it, and what the closure spawns.
RetainStep(task, current_tick) ==
    IF TaskCancelled(task)
    THEN [keep |-> FALSE, task |-> task, spawn |-> "cancel"]
    ELSE IF task.task_type.tag = "Later"
    THEN IF IsDue(task, current_tick)
         THEN [keep |-> FALSE, task |-> task, spawn |-> "run"]
         ELSE [keep |-> TRUE, task |-> task, spawn |-> "none"]
    ELSE IF IsDue(task, current_tick)
         THEN [keep |-> TRUE, task |-> Reschedule(task, current_tick),
               spawn |-> "run"]
         ELSE [keep |-> TRUE, task |-> task, spawn |-> "none"]

\* Vec::retain_mut: the closure is applied to every element once, in order;
\* the kept elements stay in order.  `visited` lists what was evaluated.
RECURSIVE RetainMut(_, _)
RetainMut(ts, current_tick) ==
    IF ts = <<>> THEN [kept |-> <<>>, visited |-> <<>>]
    ELSE LET r == RetainStep(Head(ts), current_tick)
             rest == RetainMut(Tail(ts), current_tick)
         IN [kept |-> (IF r.keep THEN <<r.task>> ELSE <<>>) \o rest.kept,
             visited |-> <<[id |-> Head(ts).handler, spawn |-> r.spawn]>>
                           \o rest.visited]

\* Mutant of FetchAdd1: the counter advances by two.
FetchAdd2(count) == U64Add(count, 2)

\* `self.tick_count.fetch_add(1, Relaxed) + 1`
FetchAdd1(count) == U64Add(count, 1)

\* How often `visited` evaluates id / spawns op for id / spawns op.
Visits(visited, id) ==
    Cardinality({i \in 1 .. Len(visited) : visited[i].id = id})

Spawns(visited, id, op) ==
    Cardinality({i \in 1 .. Len(visited) :
                    visited[i].id = id /\ visited[i].spawn = op})

SpawnCount(visited, op) ==
    Cardinality({i \in 1 .. Len(visited) : visited[i].spawn = op})

\* The tokio tasks in flight after a scan that visited `visited`.
SpawnedAfter(visited) ==
    [run |-> spawned.run + SpawnCount(visited, "run"),
     cancel |-> spawned.cancel + SpawnCount(visited, "cancel")]

\* The observation after a scan with counter value current_tick.
HistAfter(visited, current_tick) ==
    [id \in Ids |->
        LET nr == Spawns(visited, id, "run")
            nc == Spawns(visited, id, "cancel")
            h == hist[id]
        IN [h EXCEPT
              !.runs = h.runs + nr,
              !.first_run = IF nr > 0 /\ h.runs = 0 THEN current_tick ELSE @,
              !.last_run = IF nr > 0 THEN current_tick ELSE @,
              !.cancels = h.cancels + nc,
              !.evals = h.evals + Visits(visited, id)]]

\* The body of tick(): advance the counter, scan the pending tasks under the
\* lock, spawn what is due or cancelled.  tick() awaits nothing.
DoTick ==
    LET current_tick == FetchAdd1(tick_count)
        res == RetainMut(tasks, current_tick)
    IN /\ tick_count' = current_tick
       /\ tasks' = res.kept
       /\ spawned' = SpawnedAfter(res.visited)
       /\ hist' = HistAfter(res.visited, current_tick)
       /\ tick_calls' = tick_calls + 1
       /\ UNCHANGED <<flags, created, panicked>>
       /\ UNCHANGED ext
       /\ UNCHANGED parts

\* Mutant of Tick: tick() joins the handlers spawned so far before scanning.
TickAwaitsHandlers ==
    /\ spawned.run = 0 /\ spawned.cancel = 0
    /\ tick_calls < MaxTick
    /\ DoTick

Tick ==
    /\ tick_calls < MaxTick
    /\ DoTick

\* ------------------------------------------------------ spawned handlers
\* A spawned `handler.run().await` / `handler.cancel().await` completes.
HandlerFinish(op) ==
    /\ spawned[op] > 0
    /\ spawned' = [spawned EXCEPT ![op] = @ - 1]
    /\ UNCHANGED <<tasks, tick_count, flags, created, hist, tick_calls, panicked>>
    /\ UNCHANGED ext
    /\ UNCHANGED parts

\* Mutant of HandlerPanic: the failure takes the pending set down with it.
HandlerPanicClearsTasks(op) ==
    /\ spawned[op] > 0
    /\ spawned' = [spawned EXCEPT ![op] = @ - 1]
    /\ panicked' = IF panicked = -1 THEN tick_count ELSE panicked
    /\ tasks' = <<>>
    /\ UNCHANGED <<tick_count, flags, created, hist, tick_calls>>
    /\ UNCHANGED ext
    /\ UNCHANGED parts

\* A spawned handler panics: the tokio task ends, the panic stays in it.
HandlerPanic(op) ==
    /\ spawned[op] > 0
    /\ spawned' = [spawned EXCEPT ![op] = @ - 1]
    /\ panicked' = IF panicked = -1 THEN tick_count ELSE panicked
    /\ UNCHANGED <<tasks, tick_count, flags, created, hist, tick_calls>>
    /\ UNCHANGED ext
    /\ UNCHANGED parts

\* ----------------------------------------------------------------- Next
Next ==
    \/ \E d \in Args : ScheduleOnce(d)
    \/ \E i \in Args : ScheduleRepeating(i)
    \/ \E id \in Ids : SetToken(id)
    \/ Tick
    \/ \E op \in {"run", "cancel"} : HandlerFinish(op)
    \/ \E op \in {"run", "cancel"} : HandlerPanic(op)

Spec == Init /\ [][Next]_vars

\* ==================================================== concurrent callers
\* tick(), schedule_once and schedule_repeating take &self, and the scheduler
\* is Sync: the calls below are made by several threads at once, each call
\* split at its accesses to the shared state.

\* The scheduler state the steps of a concurrent call leave alone.
macros == <<handlers, exec, tm>>

\* The threads that hold the MutexGuard of `tasks`.
Holders == {p \in Procs : pc[p] \in {"scan", "push", "await"}}

\* tick(), first statement: `self.tick_count.fetch_add(1, Relaxed) + 1`.
TickFetchAdd(p) ==
    /\ pc[p] = "idle"
    /\ tick_calls < MaxTick
    /\ tick_count' = FetchAdd1(tick_count)
    /\ loc' = [loc EXCEPT ![p] = [NoLoc EXCEPT !.current_tick = FetchAdd1(tick_count),
                                              !.kind = "tick"]]
    /\ pc' = [pc EXCEPT ![p] = "lock"]
    /\ tick_calls' = tick_calls + 1
    /\ UNCHANGED <<tasks, flags, created, spawned, hist, panicked, lock, scans>>
    /\ UNCHANGED macros
    /\ UNCHANGED parts

\* Mutant of MutexLock: the lock is handed out while another thread holds it.
MutexLockShared(p, next) ==
    /\ pc[p] = "lock"
    /\ lock' = p
    /\ pc' = [pc EXCEPT ![p] = next]
    /\ UNCHANGED <<tasks, tick_count, flags, created, spawned, hist, tick_calls,
                   panicked, loc, scans>>
    /\ UNCHANGED macros
    /\ UNCHANGED parts

\* `self.tasks.lock().unwrap()`: blocks until the mutex is free.
MutexLock(p, next) ==
    /\ pc[p] = "lock"
    /\ lock = "free"
    /\ lock' = p
    /\ pc' = [pc EXCEPT ![p] = next]
    /\ UNCHANGED <<tasks, tick_count, flags, created, spawned, hist, tick_calls,
                   panicked, loc, scans>>
    /\ UNCHANGED macros
    /\ UNCHANGED parts

\* tick(), `let mut tasks = self.tasks.lock().unwrap();`
TickLock(p) == MutexLock(p, "scan")

\* Mutant of TickScan: the scan awaits the handlers it starts before it
\* drops the guard.
TickScanAwaitsInline(p) ==
    /\ pc[p] = "scan"
    /\ LET current_tick == loc[p].current_tick
           res == RetainMut(tasks, current_tick)
           inline == SpawnCount(res.visited, "run") > 0
       IN /\ tasks' = res.kept
          /\ spawned' = SpawnedAfter(res.visited)
          /\ hist' = HistAfter(res.visited, current_tick)
          /\ scans' = Append(scans, [p |-> p, current_tick |-> current_tick])
          /\ lock' = IF inline THEN lock ELSE "free"
          /\ pc' = [pc EXCEPT ![p] = IF inline THEN "await" ELSE "idle"]
    /\ UNCHANGED <<tick_count, flags, created, tick_calls, panicked, loc>>
    /\ UNCHANGED macros
    /\ UNCHANGED parts

\* tick(), the retain_mut scan with the counter value this call obtained,
\* under the guard; the guard is dropped when tick() returns.  The handlers
\* are spawned, not awaited.
TickScan(p) ==
    /\ pc[p] = "scan"
    /\ LET current_tick == loc[p].current_tick
           res == RetainMut(tasks, current_tick)
       IN /\ tasks' = res.kept
          /\ spawned' = SpawnedAfter(res.visited)
          /\ hist' = HistAfter(res.visited, current_tick)
          /\ scans' = Append(scans, [p |-> p, current_tick |-> current_tick])
    /\ lock' = "free"
    /\ pc' = [pc EXCEPT ![p] = "idle"]
    /\ UNCHANGED <<tick_count, flags, created, tick_calls, panicked, loc>>
    /\ UNCHANGED macros
    /\ UNCHANGED parts

\* The schedule_* calls that have read the counter and not pushed yet.
InCall == {p \in SchedProcs : pc[p] # "idle"}

\* schedule_once / schedule_repeating, first statement:
\* `let current_tick = self.tick_count.load(Relaxed);`.  The thread h1 is
\* the body of a run() that tick() spawned.
SchedLoad(p, kind, arg) ==
    /\ pc[p] = "idle"
    /\ created + Cardinality(InCall) < MaxTasks
    /\ p = "h1" => spawned.run > 0
    /\ loc' = [loc EXCEPT ![p] = [current_tick |-> tick_count, kind |-> kind,
                                  arg |-> arg]]
    /\ pc' = [pc EXCEPT ![p] = "lock"]
    /\ UNCHANGED <<tasks, tick_count, flags, created, spawned, hist, tick_calls,
                   panicked, lock, scans>>
    /\ UNCHANGED macros
    /\ UNCHANGED parts

\* schedule_*, `self.tasks.lock().unwrap()`
SchedLock(p) == MutexLock(p, "push")

\* schedule_*, the push under the guard, with the counter value read before
\* the lock was taken; the guard is a temporary, dropped after the push.
SchedPush(p) ==
    /\ pc[p] = "push"
    /\ LET id == created + 1
           l == loc[p]
       IN /\ flags' = [flags EXCEPT ![id] = FALSE]
          /\ tasks' = Append(tasks,
                        IF l.kind = "Later" THEN OnceTask(l.current_tick, l.arg, id)
                        ELSE RepeatingTask(l.current_tick, l.arg, id))
          /\ created' = id
          /\ hist' = [hist EXCEPT ![id] = NewHist(l.kind, l.current_tick, l.arg)]
    /\ lock' = "free"
    /\ pc' = [pc EXCEPT ![p] = "idle"]
    /\ UNCHANGED <<tick_count, spawned, tick_calls, panicked, loc, scans>>
    /\ UNCHANGED macros
    /\ UNCHANGED parts

\* A spawned run() completes; the run() whose body is the thread h1 is still
\* in flight while h1 is inside its schedule_* call.
RunFinish ==
    /\ spawned.run > (IF pc["h1"] = "idle" THEN 0 ELSE 1)
    /\ HandlerFinish("run")

NextConc ==
    \/ \E p \in TickProcs : TickFetchAdd(p)
    \/ \E p \in TickProcs : TickLock(p)
    \/ \E p \in TickProcs : TickScan(p)
    \/ \E p \in SchedProcs, kind \in {"Later", "Timer"}, arg \in Args :
          SchedLoad(p, kind, arg)
    \/ \E p \in SchedProcs : SchedLock(p)
    \/ \E p \in SchedProcs : SchedPush(p)
    \/ RunFinish

SpecConc == Init /\ [][NextConc]_vars

\* ===================================================== handles and macros
\* ScheduledHandle::cancel (mod.rs:128-131), on a handle made of the handler
\* and the cancel flag of task id: the flag is set and handler.cancel() is
\* awaited by the caller.
ScheduledHandleCancel(id) ==
    /\ id <= created
    /\ handlers[id].kind = "plain"
    /\ exec[id].direct_cancels < MaxHandleCancels
    /\ flags' = [flags EXCEPT ![id] = TRUE]
    /\ hist' = [hist EXCEPT ![id] =
                  IF flags[id] THEN @
                  ELSE [@ EXCEPT !.set_at = tick_count,
                                 !.runs_at_set = hist[id].runs]]
    /\ exec' = [exec EXCEPT ![id].direct_cancels = @ + 1]
    /\ UNCHANGED <<tasks, tick_count, created, spawned, tick_calls, panicked>>
    /\ UNCHANGED <<pc, loc, lock, scans, handlers, tm>>
    /\ UNCHANGED parts

\* run_task_timer! of task_timer.rs: an InlineHandler with a cancel flag of
\* its own is given to schedule_repeating; the flag schedule_repeating
\* returns is dropped and the handler's flag is handed to the caller.
RunTaskTimerInline(interval) ==
    /\ created < MaxTasks
    /\ LET id == created + 1
           current_tick == tick_count
       IN /\ handlers' = [handlers EXCEPT ![id] =
                [kind |-> "InlineHandler", cancel_flag |-> FALSE, future |-> "none"]]
          /\ flags' = [flags EXCEPT ![id] = FALSE]
          /\ tasks' = Append(tasks, RepeatingTask(current_tick, interval, id))
          /\ created' = id
          /\ hist' = [hist EXCEPT ![id] = NewHist("Timer", current_tick, interval)]
          /\ exec' = [exec EXCEPT ![id].by = "task_timer"]
    /\ UNCHANGED <<tick_count, spawned, tick_calls, panicked>>
    /\ UNCHANGED <<pc, loc, lock, scans, tm>>
    /\ UNCHANGED parts

\* The observation when the flag of the InlineHandler of id is set.
FlagSet(id) ==
    IF handlers[id].cancel_flag THEN exec[id]
    ELSE [exec[id] EXCEPT !.set_at = tick_count, !.runs_at_set = hist[id].runs]

\* store(true) on the flag that run_task_timer! of task_timer.rs returned.
SetInlineFlag(id) ==
    /\ handlers[id].kind = "InlineHandler"
    /\ handlers' = [handlers EXCEPT ![id].cancel_flag = TRUE]
    /\ exec' = [exec EXCEPT ![id] = FlagSet(id)]
    /\ UNCHANGED <<tasks, tick_count, flags, created, spawned, hist, tick_calls,
                   panicked>>
    /\ UNCHANGED <<pc, loc, lock, scans, tm>>
    /\ UNCHANGED parts

\* What run_task_later! of task/macros.rs stores in InlineOnceHandler.future:
\* `match async { $body }.await { _ => Box::pin(async {}) }`.
LaterFuture == "empty"

\* How often the run_task_later! call itself executes $body: the block
\* `async { $body }` is awaited before the handler is built.
LaterBodyAtCall == 1

\* run_task_later!($server, $delay_ticks, $body) of task/macros.rs, called
\* by `by`: $body is awaited, an InlineOnceHandler with a fresh flag and
\* the stored future is given to schedule_once.
InlineOnce(delay_ticks, by) ==
    /\ created < MaxTasks
    /\ LET id == created + 1
           current_tick == tick_count
       IN /\ handlers' = [handlers EXCEPT ![id] =
                [kind |-> "InlineOnceHandler", cancel_flag |-> FALSE,
                 future |-> LaterFuture]]
          /\ exec' = [exec EXCEPT ![id].by = by,
                                  ![id].body_at_call = LaterBodyAtCall]
          /\ flags' = [flags EXCEPT ![id] = FALSE]
          /\ tasks' = Append(tasks, OnceTask(current_tick, delay_ticks, id))
          /\ created' = id
          /\ hist' = [hist EXCEPT ![id] = NewHist("Later", current_tick, delay_ticks)]
    /\ UNCHANGED <<tick_count, spawned, tick_calls, panicked>>
    /\ UNCHANGED <<pc, loc, lock, scans>>
    /\ UNCHANGED parts

RunTaskLaterMacro(delay_ticks) ==
    /\ InlineOnce(delay_ticks, "run_task_later")
    /\ UNCHANGED tm

\* run_task_timer!($server, $interval_ticks, $body) of task/macros.rs, up to
\* line 78: task_cell holds the closure `task`, and the argument of the
\* outer run_task_later!, `{ task(); }`, starts to be evaluated.
TimerMacroCall(interval_ticks) ==
    /\ tm.pos = "none"
    /\ created < MaxTasks
    /\ tm' = [pos |-> "later0", depth |-> 1, cell_locked |-> FALSE,
              interval |-> interval_ticks, t0 |-> tick_count]
    /\ UNCHANGED <<tasks, tick_count, flags, created, spawned, hist, tick_calls,
                   panicked>>
    /\ UNCHANGED <<pc, loc, lock, scans, handlers, exec>>
    /\ UNCHANGED parts

\* `task`, line 66: run_task_later!(server.clone(), 0, { $body }).
TimerMacroBody ==
    /\ tm.pos = "later0"
    /\ InlineOnce(0, "run_task_timer")
    /\ tm' = [tm EXCEPT !.pos = "lockcell"]

\* `task`, line 68: `if let Some(task) = task_cell.lock().unwrap().as_ref()`.
\* The guard lives to the end of the `if let`, whose block evaluates
\* `{ task(); }` for the inner run_task_later!: the nested call of `task`
\* locks task_cell on the thread that holds it, which never returns (std
\* leaves open whether it deadlocks or panics).
TimerMacroLockCell ==
    /\ tm.pos = "lockcell"
    /\ IF ~tm.cell_locked
       THEN tm' = [tm EXCEPT !.cell_locked = TRUE, !.depth = @ + 1,
                             !.pos = "later0"]
       ELSE \E outcome \in {"deadlock", "panic"} : tm' = [tm EXCEPT !.pos = outcome]
    /\ UNCHANGED <<tasks, tick_count, flags, created, spawned, hist, tick_calls,
                   panicked>>
    /\ UNCHANGED <<pc, loc, lock, scans, handlers, exec>>
    /\ UNCHANGED parts

\* A spawned `handler.run().await` of task id executes.  A plain handler is
\* opaque; InlineHandler::run (task_timer.rs:17-29) executes $body, which
\* may call `cancel`; InlineOnceHandler::run (macros.rs:20-33) returns if
\* its flag is set and otherwise takes the stored future and awaits it.
HandlerRun(id, cancel_called) ==
    /\ spawned.run > 0
    /\ hist[id].runs > exec[id].started
    /\ cancel_called => handlers[id].kind = "InlineHandler"
    /\ spawned' = [spawned EXCEPT !.run = @ - 1]
    /\ LET h == handlers[id]
           e == [exec[id] EXCEPT !.started = @ + 1]
       IN CASE h.kind = "plain" ->
                 /\ handlers' = handlers
                 /\ exec' = [exec EXCEPT ![id] = e]
            [] h.kind = "InlineHandler" ->
                 /\ handlers' = [handlers EXCEPT ![id].cancel_flag = @ \/ cancel_called]
                 /\ exec' = [exec EXCEPT ![id] =
                       [(IF cancel_called THEN FlagSet(id) ELSE exec[id]) EXCEPT
                           !.started = @ + 1, !.body_at_run = @ + 1]]
            [] h.kind = "InlineOnceHandler" ->
                 IF h.cancel_flag \/ h.future \in {"none", "taken"}
                 THEN /\ handlers' = handlers
                      /\ exec' = [exec EXCEPT ![id] = e]
                 ELSE /\ handlers' = [handlers EXCEPT ![id].future = "taken"]
                      /\ exec' = [exec EXCEPT ![id] =
                            [e EXCEPT !.body_at_run =
                                @ + (IF h.future = "body" THEN 1 ELSE 0)]]
    /\ UNCHANGED <<tasks, tick_count, flags, created, hist, tick_calls, panicked>>
    /\ UNCHANGED <<pc, loc, lock, scans, tm>>
    /\ UNCHANGED parts

\* The scheduler with its two handle types.
NextHandles ==
    \/ \E d \in Args : ScheduleOnce(d)
    \/ \E i \in Args : ScheduleRepeating(i)
    \/ \E id \in Ids : SetToken(id)
    \/ \E id \in Ids : ScheduledHandleCancel(id)
    \/ Tick
    \/ \E id \in Ids : HandlerRun(id, FALSE)
    \/ HandlerFinish("cancel")

SpecHandles == Init /\ [][NextHandles]_vars

\* The scheduler driven through the task macros.
NextMacros ==
    \/ \E i \in Args : RunTaskTimerInline(i)
    \/ \E id \in Ids : SetInlineFlag(id)
    \/ \E d \in Args : RunTaskLaterMacro(d)
    \/ \E i \in Args : TimerMacroCall(i)
    \/ TimerMacroBody
    \/ TimerMacroLockCell
    \/ Tick
    \/ \E id \in Ids, cancel_called \in BOOLEAN : HandlerRun(id, cancel_called)

SpecMacros == Init /\ [][NextMacros]_vars

\* ============================================================== event bus
\* Bounds of the event bus: registrations made and send_cancellable!
\* expansions started in one run.
MaxListeners == 3
MaxFires == 2

\* The tasks that take the write lock of PLUGIN_MANAGER: the plugin loader
\* "r1", and a listener running inside the fire of a caller.
Writers == {"r1"} \cup Callers

\* The outcomes of one listener invocation.
Outcomes == {"ok", "cancel", "uncancel", "fail"}

\* The listeners fire(event) invokes for an event kind, in dispatch order.
ListenersOf(kind) == SelectSeq(registry, LAMBDA l : l.kind = kind)

\* register() storing the listeners in registration order only.
InsertLast(reg, l) == Append(reg, l)

\* register() keeps the list ordered by priority, ties in registration order.
InsertByPriority(reg, l) ==
    LET k == Cardinality({i \in 1..Len(reg) : reg[i].priority <= l.priority})
    IN  SubSeq(reg, 1, k) \o <<l>> \o SubSeq(reg, k + 1, Len(reg))

\* unregister() removes one entry and leaves the others in place.
RemoveAt(reg, i) == SubSeq(reg, 1, i - 1) \o SubSeq(reg, i + 1, Len(reg))

\* Cancellable::cancelled of the #[cancellable] attribute.
Cancelled(event) == event.cancelled

\* The constructors of the cancellable events.
Constructors == {"BlockPlaceEvent", "SignChangeEvent", "InventoryClickEvent",
                 "PlayerBedEnterEvent", "PlayerBedLeaveEvent", "PlayerDeathEvent"}

\* A constructor that leaves one event type cancelled.
EventNewDeathCancelled(ctor, kind) == Event(kind, ctor = "PlayerDeathEvent")

\* XxxEvent::new(..): every constructor writes `cancelled: false`.
EventNew(ctor, kind) ==
    CASE ctor = "BlockPlaceEvent"     -> Event(kind, FALSE)
      [] ctor = "SignChangeEvent"     -> Event(kind, FALSE)
      [] ctor = "InventoryClickEvent" -> Event(kind, FALSE)
      [] ctor = "PlayerBedEnterEvent" -> Event(kind, FALSE)
      [] ctor = "PlayerBedLeaveEvent" -> Event(kind, FALSE)
      [] ctor = "PlayerDeathEvent"    -> Event(kind, FALSE)

\* set_cancelled that can cancel but not un-cancel.
SetCancelledSticky(event, cancelled) ==
    [event EXCEPT !.cancelled = @ \/ cancelled]

\* Cancellable::set_cancelled of the #[cancellable] attribute.
SetCancelledIgnored(event, cancelled) == event

SetCancelled(event, cancelled) == [event EXCEPT !.cancelled = cancelled]

\* What a listener does to the event it was handed.
Handled(event, outcome) ==
    CASE outcome = "cancel"   -> SetCancelled(event, TRUE)
      [] outcome = "uncancel" -> SetCancelled(event, FALSE)
      [] OTHER                -> event

\* PLUGIN_MANAGER.read().await with the guard dropped before fire is awaited.
ReadGuardDropped(c) ==
    /\ call[c].pos = "read"
    /\ call' = [call EXCEPT ![c].pos = "fire",
                   ![c].snapshot = ListenersOf(call[c].event.kind)]
    /\ UNCHANGED rw

\* PLUGIN_MANAGER.read().await: the read guard is a temporary of the `let`
\* statement, so it lives until fire(..).await has returned.
ReadGuard(c) ==
    /\ call[c].pos = "read"
    /\ rw.writer = "none"
    /\ rw' = [rw EXCEPT !.readers = @ + 1]
    /\ call' = [call EXCEPT ![c].pos = "fire", ![c].guard = TRUE,
                   ![c].snapshot = ListenersOf(call[c].event.kind)]

\* send_cancellable! {{ event; 'after: {..} 'cancelled: {..} }} is entered:
\* the event expression is evaluated (its constructor clears `cancelled`).
SendCancellable(c, ctor, kind, has_after, has_cancelled) ==
    /\ call[c].pos \in {"idle", "done"}
    /\ fired < MaxFires
    /\ fired' = fired + 1
    /\ call' = [call EXCEPT ![c] =
                  [NoCall EXCEPT !.pos = "read", !.event = EventNew(ctor, kind),
                                 !.has_after = has_after,
                                 !.has_cancelled = has_cancelled]]
    /\ UNCHANGED <<registry, registered, rw>>
    /\ UNCHANGED <<sched, sign, pdc, nbt, combat, once>>

\* The macro's first await: the read lock of PLUGIN_MANAGER.
SendRead(c) ==
    /\ ReadGuard(c)
    /\ UNCHANGED <<registry, registered, fired>>
    /\ UNCHANGED <<sched, sign, pdc, nbt, combat, once>>

\* fire(): the next listener of the event's kind is invoked with the event.
FireInvoke(c) ==
    /\ call[c].pos = "fire"
    /\ call[c].cur = "none"
    /\ call[c].idx < Len(ListenersOf(call[c].event.kind))
    /\ LET l == ListenersOf(call[c].event.kind)[call[c].idx + 1]
       IN  call' = [call EXCEPT ![c].cur = "running",
                      ![c].log = Append(@, [id |-> l.id,
                                            cancelled |-> Cancelled(call[c].event),
                                            outcome |-> "running"])]
    /\ UNCHANGED <<registry, registered, rw, fired>>
    /\ UNCHANGED <<sched, sign, pdc, nbt, combat, once>>

\* fire() with a failing listener ending the dispatch.
AfterListenerAbort(c, outcome) ==
    IF outcome = "fail" THEN Len(ListenersOf(call[c].event.kind))
                        ELSE call[c].idx + 1

\* fire(): where the dispatch continues after a listener, failed or not.
AfterListener(c, outcome) == call[c].idx + 1

\* The running listener completes (or fails) and fire() moves on.
ListenerReturn(c, outcome) ==
    /\ call[c].pos = "fire"
    /\ call[c].cur = "running"
    /\ call' = [call EXCEPT ![c].cur = "none",
                   ![c].event = Handled(@, outcome),
                   ![c].idx = AfterListener(c, outcome),
                   ![c].log[Len(call[c].log)].outcome = outcome]
    /\ UNCHANGED <<registry, registered, rw, fired>>
    /\ UNCHANGED <<sched, sign, pdc, nbt, combat, once>>

\* The running listener starts an operation that needs the plugin manager
\* exclusively (PLUGIN_MANAGER.write().await) and waits for it.
ListenerWantsWrite(c) ==
    /\ call[c].pos = "fire"
    /\ call[c].cur = "running"
    /\ call' = [call EXCEPT ![c].cur = "want_write"]
    /\ UNCHANGED <<registry, registered, rw, fired>>
    /\ UNCHANGED <<sched, sign, pdc, nbt, combat, once>>

\* PLUGIN_MANAGER.write().await is granted: no reader and no writer is left.
WriteLock(w) ==
    /\ rw.writer = "none"
    /\ rw.readers = 0
    /\ w \in Callers => call[w].cur = "want_write"
    /\ registered < MaxListeners \/ Len(registry) > 0
    /\ rw' = [rw EXCEPT !.writer = w]
    /\ UNCHANGED <<registry, registered, call, fired>>
    /\ UNCHANGED <<sched, sign, pdc, nbt, combat, once>>

\* The writer is done and drops the write guard; a listener carries on.
WriteUnlock(w) ==
    /\ rw' = [rw EXCEPT !.writer = "none"]
    /\ call' = IF w \in Callers THEN [call EXCEPT ![w].cur = "running"] ELSE call

\* register(kind, priority, listener) under the write guard.
Register(w, kind, priority) ==
    /\ rw.writer = w
    /\ registered < MaxListeners
    /\ registered' = registered + 1
    /\ registry' = InsertByPriority(registry,
                      [id |-> registered + 1, kind |-> kind, priority |-> priority])
    /\ WriteUnlock(w)
    /\ UNCHANGED fired
    /\ UNCHANGED <<sched, sign, pdc, nbt, combat, once>>

\* unregister of the i-th stored listener under the write guard.
Unregister(w, i) ==
    /\ rw.writer = w
    /\ i \in 1..Len(registry)
    /\ registry' = RemoveAt(registry, i)
    /\ WriteUnlock(w)
    /\ UNCHANGED <<registered, fired>>
    /\ UNCHANGED <<sched, sign, pdc, nbt, combat, once>>

\* fire() has no listener left to invoke.
FireComplete(c) ==
    /\ call[c].pos = "fire"
    /\ call[c].cur = "none"
    /\ call[c].idx >= Len(ListenersOf(call[c].event.kind))

\* `let event = ... .fire(event).await;` ends: the event is bound and the
\* temporary read guard is dropped.
FireReturn(c) ==
    /\ FireComplete(c)
    /\ rw' = [rw EXCEPT !.readers = IF call[c].guard THEN @ - 1 ELSE @]
    /\ call' = [call EXCEPT ![c].pos = "returned", ![c].guard = FALSE]
    /\ UNCHANGED <<registry, registered, fired>>
    /\ UNCHANGED <<sched, sign, pdc, nbt, combat, once>>

\* The block selection with the test of `cancelled` inverted.
BlocksRunInverted(cancelled, has_after, has_cancelled) ==
    {b \in {"after"} : has_after /\ cancelled}
        \cup {b \in {"cancelled"} : has_cancelled /\ ~cancelled}

\* The four expansions of send_cancellable!: which blocks run for the
\* returned event.
BlocksRun(cancelled, has_after, has_cancelled) ==
    IF has_after /\ has_cancelled
    THEN IF ~cancelled THEN {"after"} ELSE {"cancelled"}
    ELSE IF has_after
    THEN IF ~cancelled THEN {"after"} ELSE {}
    ELSE IF has_cancelled
    THEN IF cancelled THEN {"cancelled"} ELSE {}
    ELSE {}

\* The if-statement that follows the `let` in the expansion.
SendBlocks(c) ==
    /\ call[c].pos = "returned"
    /\ call' = [call EXCEPT ![c].pos = "done",
                  ![c].ran = BlocksRun(call[c].event.cancelled,
                                       call[c].has_after, call[c].has_cancelled)]
    /\ UNCHANGED <<registry, registered, rw, fired>>
    /\ UNCHANGED <<sched, sign, pdc, nbt, combat, once>>

NextBus ==
    \/ \E c \in Callers, ctor \in Constructors, kind \in Kinds,
          a \in BOOLEAN, b \in BOOLEAN :
          SendCancellable(c, ctor, kind, a, b)
    \/ \E c \in Callers : SendRead(c)
    \/ \E c \in Callers : FireInvoke(c)
    \/ \E c \in Callers, o \in Outcomes : ListenerReturn(c, o)
    \/ \E c \in Callers : ListenerWantsWrite(c)
    \/ \E w \in Writers : WriteLock(w)
    \/ \E w \in Writers, kind \in Kinds, p \in Priorities : Register(w, kind, p)
    \/ \E w \in Writers, i \in 1..MaxListeners : Unregister(w, i)
    \/ \E c \in Callers : FireReturn(c)
    \/ \E c \in Callers : SendBlocks(c)

SpecBus == Init /\ [][NextBus]_vars

\* ======================================================= SignChangeEvent
\* Bounds: the lines a sign event holds and the line texts tried.
MaxSignLines == 4
SignTexts == {"a", "b", "x"}

\* The contents a SignChangeEvent is constructed with.
RECURSIVE SignContents(_)
SignContents(n) ==
    IF n = 0 THEN {<<>>}
    ELSE SignContents(n - 1) \cup
         {Append(c, t) : c \in {d \in SignContents(n - 1) : Len(d) = n - 1},
                         t \in SignTexts}

\* SignChangeEvent::new(player, content, side).
SignChangeEventNew(content) ==
    /\ sign.state = "none"
    /\ sign' = [NoSign EXCEPT !.state = "new", !.content = content]
    /\ UNCHANGED <<sched, bus, pdc, nbt, combat, once>>

\* SignChangeEvent::lines(): a clone of the content.
Lines(content) == content

\* SignChangeEvent::line(index): content.get(index).unwrap().clone(), with
\* the index counted from 0; out of bounds the unwrap panics.
Line(content, index) ==
    IF index < Len(content) THEN content[index + 1] ELSE "panic"

\* Writing the line at the index in place.
VecReplace(content, index, line) == [content EXCEPT ![index + 1] = line]

\* Vec::insert(index, element): the elements from index on move one place up.
VecInsert(content, index, line) ==
    SubSeq(content, 1, index) \o <<line>> \o SubSeq(content, index + 1, Len(content))

\* SignChangeEvent::set_line(index, line): self.content.insert(index, line).
\* Vec::insert panics when index > len.
SetLine(index, line) ==
    /\ sign.state \in {"new", "set"}
    /\ Len(sign.content) < MaxSignLines
    /\ sign' = IF index > Len(sign.content)
               THEN [sign EXCEPT !.state = "panicked", !.index = index,
                                 !.line = line, !.before = sign.content]
               ELSE [sign EXCEPT !.state = "set", !.index = index,
                                 !.line = line, !.before = sign.content,
                                 !.content = VecInsert(sign.content, index, line)]
    /\ UNCHANGED <<sched, bus, pdc, nbt, combat, once>>

NextSign ==
    \/ \E content \in SignContents(MaxSignLines - 1) : SignChangeEventNew(content)
    \/ \E index \in 0..MaxSignLines, line \in SignTexts : SetLine(index, line)

SpecSign == Init /\ [][NextSign]_vars

\* ========================================================= NamespacedKey
\* Bounds: the length of the strings given to NamespacedKey::new, the entries
\* a container holds.
MaxStrLen == 1
MaxEntries == 2

\* The characters tried: an upper-case and a lower-case ASCII letter, an
\* ASCII character without case, and a non-ASCII letter.
Chars == {"A", "a", "_", "é"}
AsciiChars == {"A", "a", "_"}
PdcValues == {1, 2}

\* The strings of at most n characters.
RECURSIVE Strings(_)
Strings(n) ==
    IF n = 0 THEN {<<>>}
    ELSE Strings(n - 1) \cup
         {Append(s, ch) : s \in {t \in Strings(n - 1) : Len(t) = n - 1},
                          ch \in Chars}

\* str::is_ascii.
IsAscii(s) == \A i \in 1..Len(s) : s[i] \in AsciiChars

\* str::to_ascii_lowercase: 'A'..='Z' are mapped to 'a'..='z', every other
\* character is kept.
ToAsciiLowercase(s) == [i \in 1..Len(s) |-> IF s[i] = "A" THEN "a" ELSE s[i]]

Ok(v) == [ok |-> TRUE, value |-> v]
Err(e) == [ok |-> FALSE, err |-> e]

\* NamespacedKey::new keeping the strings as given.
NamespacedKeyNewAsGiven(namespace, key) ==
    IF ~IsAscii(namespace) THEN Err("NonAsciiNamespace")
    ELSE IF ~IsAscii(key) THEN Err("NonAsciiKey")
    ELSE Ok([namespace |-> namespace, key |-> key])

\* NamespacedKey::new(namespace, key).
NamespacedKeyNew(namespace, key) ==
    IF ~IsAscii(namespace) THEN Err("NonAsciiNamespace")
    ELSE IF ~IsAscii(key) THEN Err("NonAsciiKey")
    ELSE Ok([namespace |-> ToAsciiLowercase(namespace),
             key |-> ToAsciiLowercase(key)])

\* The DashMap of the container as a set of entries, at most one per key
\* (NamespacedKey derives Eq and Hash over both fields).
PdcKeys(data) == {e.key : e \in data}
PdcWithout(data, k) == {e \in data : e.key # k}

\* PersistentDataContainer::get(key).
PdcGet(data, k) ==
    IF k \in PdcKeys(data)
    THEN Ok((CHOOSE e \in data : e.key = k).value)
    ELSE Err("None")

\* PersistentDataContainer::contains_key(key).
PdcContainsKey(data, k) == k \in PdcKeys(data)

\* The container after a call with a key made by NamespacedKey::new, kept
\* with the arguments of the call.
PdcCalled(op, namespace, key, value, data) ==
    [data |-> data, op |-> op, namespace |-> namespace, key |-> key,
     result |-> NamespacedKeyNew(namespace, key), value |-> value]

\* PersistentDataContainer::insert(&NamespacedKey::new(namespace, key)?, value):
\* the container is not called when new returns Err.
PdcInsert(namespace, key, value) ==
    LET r == NamespacedKeyNew(namespace, key)
    IN  /\ r.ok => \/ r.value \in PdcKeys(pdc.data)
                   \/ Cardinality(pdc.data) < MaxEntries
        /\ pdc' = PdcCalled("insert", namespace, key, value,
                     IF r.ok
                     THEN PdcWithout(pdc.data, r.value)
                              \cup {[key |-> r.value, value |-> value]}
                     ELSE pdc.data)
        /\ UNCHANGED <<sched, bus, sign, nbt, combat, once>>

\* PersistentDataContainer::remove(&NamespacedKey::new(namespace, key)?).
PdcRemove(namespace, key) ==
    LET r == NamespacedKeyNew(namespace, key)
    IN  /\ pdc' = PdcCalled("remove", namespace, key, 0,
                     IF r.ok THEN PdcWithout(pdc.data, r.value) ELSE pdc.data)
        /\ UNCHANGED <<sched, bus, sign, nbt, combat, once>>

\* PersistentDataContainer::clear().
PdcClear ==
    /\ pdc.data # {}
    /\ pdc' = [NoPdc EXCEPT !.op = "clear"]
    /\ UNCHANGED <<sched, bus, sign, nbt, combat, once>>

NextKey ==
    \/ \E namespace \in Strings(MaxStrLen), key \in Strings(MaxStrLen),
          value \in PdcValues : PdcInsert(namespace, key, value)
    \/ \E namespace \in Strings(MaxStrLen), key \in Strings(MaxStrLen) :
          PdcRemove(namespace, key)
    \/ PdcClear

SpecKey == Init /\ [][NextKey]_vars

\* ================================================== persistence and NBT
\* Bound: the entries of the container given to from_pdc.
MaxNbtEntries == 2

\* The keys of those entries: made by NamespacedKey::new from two namespaces
\* and two key strings.
NbtStrings == {<<"a">>, <<"_">>}
NbtKeys == {NamespacedKeyNew(namespace, key).value :
               namespace \in NbtStrings, key \in NbtStrings}

\* PersistentDataType: one value of every variant (two of Bool), the empty
\* list and the one-element lists of each of them.
Value(tag, v) == [tag |-> tag, v |-> v]
Scalars ==
    {Value("Bool", TRUE), Value("Bool", FALSE), Value("String", "s"),
     Value("Char", "c"), Value("I32", 3), Value("I64", 4), Value("U8", 5),
     Value("U16", 6), Value("U32", 7), Value("U64", 8), Value("F32", 9),
     Value("F64", 10), Value("Bytes", <<11>>)}
PersistentDataTypes ==
    Scalars \cup {Value("List", <<>>)}
            \cup {Value("List", <<e>>) : e \in Scalars \cup {Value("List", <<>>)}}

\* The panic of `unimplemented!()`.
Unimplemented == Value("unimplemented", 0)

\* from_pdc, the inner match on the elements of a List.
FromPdcElem(elem) ==
    CASE elem.tag = "I32"    -> Value("Int", elem.v)
      [] elem.tag = "String" -> Value("String", elem.v)
      [] OTHER               -> Unimplemented

\* from_pdc, the match on the value of an entry.
FromPdcTag(value) ==
    CASE value.tag = "Bool"   -> Value("Byte", IF value.v THEN 1 ELSE 0)
      [] value.tag = "I32"    -> Value("Int", value.v)
      [] value.tag = "I64"    -> Value("Long", value.v)
      [] value.tag = "F32"    -> Value("Float", value.v)
      [] value.tag = "F64"    -> Value("Double", value.v)
      [] value.tag = "String" -> Value("String", value.v)
      [] value.tag = "Bytes"  -> Value("ByteArray", value.v)
      [] value.tag = "List"   ->
            IF \E i \in 1..Len(value.v) : FromPdcElem(value.v[i]) = Unimplemented
            THEN Unimplemented
            ELSE Value("List", [i \in 1..Len(value.v) |-> FromPdcElem(value.v[i])])
      [] OTHER                -> Unimplemented

\* from_pdc(holder): one sub-compound per namespace, one tag per key; the
\* call panics when any entry reaches `unimplemented!()`.
FromPdc(data) ==
    IF \E e \in data : FromPdcTag(e.value) = Unimplemented
    THEN [ok |-> FALSE, compound |-> {}]
    ELSE [ok |-> TRUE,
          compound |->
             {[name |-> namespace,
               tag |-> Value("Compound",
                         {[name |-> e.key.key, tag |-> FromPdcTag(e.value)] :
                             e \in {d \in data : d.key.namespace = namespace}})] :
                namespace \in {e.key.namespace : e \in data}}]

\* to_pdc, the filter_map on the elements of a List tag.
ToPdcElems(list) ==
    LET kept == SelectSeq(list, LAMBDA t : t.tag \in {"Int", "String"})
    IN  [i \in 1..Len(kept) |->
            IF kept[i].tag = "Int" THEN Value("I32", kept[i].v)
            ELSE Value("String", kept[i].v)]

\* to_pdc, the match on a tag; unsupported tags are skipped.
ToPdcValue(tag) ==
    CASE tag.tag = "Byte"      -> Ok(Value("Bool", tag.v # 0))
      [] tag.tag = "Short"     -> Ok(Value("I32", tag.v))
      [] tag.tag = "Int"       -> Ok(Value("I32", tag.v))
      [] tag.tag = "Long"      -> Ok(Value("I64", tag.v))
      [] tag.tag = "Float"     -> Ok(Value("F32", tag.v))
      [] tag.tag = "Double"    -> Ok(Value("F64", tag.v))
      [] tag.tag = "String"    -> Ok(Value("String", tag.v))
      [] tag.tag = "ByteArray" -> Ok(Value("Bytes", tag.v))
      [] tag.tag = "List"      -> Ok(Value("List", ToPdcElems(tag.v)))
      [] OTHER                 -> Err("continue")

\* NbtCompound::to_pdc on a compound whose names are distinct (as from_pdc
\* builds it): every supported tag under a namespace compound is inserted
\* with the key NamespacedKey::new(namespace, key) when that is Ok.
ToPdc(compound) ==
    {[key |-> NamespacedKeyNew(ns.name, child.name).value,
      value |-> ToPdcValue(child.tag).value] :
        <<ns, child>> \in
           {<<n, ch>> \in UNION {{<<m, x>> : x \in m.tag.v} :
                                   m \in {k \in compound : k.tag.tag = "Compound"}} :
               /\ NamespacedKeyNew(n.name, ch.name).ok
               /\ ToPdcValue(ch.tag).ok}}

\* PersistentDataContainer::insert(&key, value) with a value of any variant;
\* what was observed of an earlier conversion is dropped.
NbtInsert(k, value) ==
    /\ k \in PdcKeys(pdc.data) \/ Cardinality(pdc.data) < MaxNbtEntries
    /\ pdc' = [NoPdc EXCEPT !.op = "insert",
                            !.data = PdcWithout(pdc.data, k)
                                        \cup {[key |-> k, value |-> value]}]
    /\ nbt' = NoNbt
    /\ UNCHANGED <<sched, bus, sign, combat, once>>

\* from_pdc(&container), and to_pdc() of the compound it returned.
FromPdcCall ==
    /\ LET r == FromPdc(pdc.data)
       IN  nbt' = [state |-> IF r.ok THEN "ok" ELSE "panicked",
                   of |-> pdc.data,
                   compound |-> r.compound,
                   back |-> IF r.ok THEN ToPdc(r.compound) ELSE {}]
    /\ UNCHANGED <<sched, bus, sign, pdc, combat, once>>

NextNbt ==
    \/ \E k \in NbtKeys, value \in PersistentDataTypes : NbtInsert(k, value)
    \/ FromPdcCall

SpecNbt == Init /\ [][NextNbt]_vars

\* ================================================================ combat
\* The values of pvp.combat_type tried, as character sequences: the two
\* profile names in several spellings, the documented "Legacy", and others.
CombatTypes ==
    {<<"c","l","a","s","s","i","c">>, <<"C","l","a","s","s","i","c">>,
     <<"C","L","A","S","S","I","C">>, <<"m","o","d","e","r","n">>,
     <<"M","o","d","e","r","n">>, <<"M","O","D","E","R","N">>,
     <<"L","e","g","a","c","y">>, <<"l","e","g","a","c","y">>,
     <<"c","l","a","s","s","i","c"," ">>, <<>>}

\* The upper-case letters of those values with their lower-case letters.
UpperLower ==
    {<<"C","c">>, <<"L","l">>, <<"A","a">>, <<"S","s">>, <<"I","i">>,
     <<"M","m">>, <<"O","o">>, <<"D","d">>, <<"E","e">>, <<"R","r">>,
     <<"N","n">>}

\* str::to_lowercase: every upper-case letter is replaced by its lower-case
\* letter, every other character is kept.
ToLowercase(s) ==
    [i \in 1..Len(s) |->
        IF \E p \in UpperLower : p[1] = s[i]
        THEN (CHOOSE p \in UpperLower : p[1] = s[i])[2]
        ELSE s[i]]

\* The inputs of AttackType::new tried: fall_distance in blocks, and
\* attack_cooldown_progress in hundredths (0.9 is 90).
FallDistances == {0, 1}
CooldownProgress == {0, 90, 91, 100}
StrongAbove == 90

\* PVPConfig as loaded from the configuration: combat_type is any string.
LoadConfig(combat_type) ==
    /\ ~combat.loaded
    /\ combat' = [combat EXCEPT !.loaded = TRUE, !.combat_type = combat_type]
    /\ UNCHANGED <<sched, bus, sign, pdc, nbt, once>>

\* The match of GLOBAL_COMBAT_PROFILE on the string as written.
SelectProfileCaseSensitive(combat_type) ==
    IF combat_type = <<"c","l","a","s","s","i","c">>
    THEN [profile |-> "Classic", warned |-> FALSE]
    ELSE IF combat_type = <<"m","o","d","e","r","n">>
    THEN [profile |-> "Modern", warned |-> FALSE]
    ELSE [profile |-> "Modern", warned |-> TRUE]

\* The closure of GLOBAL_COMBAT_PROFILE:
\* `match config.combat_type.to_lowercase().as_str()`.
SelectProfile(combat_type) ==
    LET lowered == ToLowercase(combat_type)
    IN  IF lowered = <<"c","l","a","s","s","i","c">>
        THEN [profile |-> "Classic", warned |-> FALSE]
        ELSE IF lowered = <<"m","o","d","e","r","n">>
        THEN [profile |-> "Modern", warned |-> FALSE]
        ELSE [profile |-> "Modern", warned |-> TRUE]

\* Dereferencing the LazyLock: the closure runs at the first access only.
Deref(cb) ==
    IF cb.profile # "unset" THEN cb
    ELSE [cb EXCEPT !.profile = SelectProfile(cb.combat_type).profile,
                    !.warned = SelectProfile(cb.combat_type).warned,
                    !.inits = @ + 1]

\* CombatProfile::combat_type of ClassicProfile / ModernProfile.
CombatTypeOf(profile) == IF profile = "Classic" THEN "Classic" ELSE "Modern"

\* AttackType::new with the sweeping test not looking at the profile.
AttackTypeSweepsAlways(profile, sprinting, on_ground, fall_distance, sword, progress) ==
    LET combat_modern == CombatTypeOf(profile) = "Modern"
        is_strong == IF combat_modern THEN progress > StrongAbove
                     ELSE TRUE
    IN  IF sprinting /\ is_strong THEN "Knockback"
        ELSE IF is_strong /\ ~on_ground /\ fall_distance > 0 THEN "Critical"
        ELSE IF sword /\ is_strong THEN "Sweeping"
        ELSE IF is_strong THEN "Strong" ELSE "Weak"

\* AttackType::new, after the loads of the player's state.
AttackType(profile, sprinting, on_ground, fall_distance, sword, progress) ==
    LET combat_modern == CombatTypeOf(profile) = "Modern"
        is_strong == IF combat_modern THEN progress > StrongAbove
                     ELSE TRUE
    IN  IF sprinting /\ is_strong THEN "Knockback"
        ELSE IF is_strong /\ ~on_ground /\ fall_distance > 0 THEN "Critical"
        ELSE IF sword /\ is_strong /\ combat_modern THEN "Sweeping"
        ELSE IF is_strong THEN "Strong" ELSE "Weak"

\* AttackType::new(player, attack_cooldown_progress): the first statement
\* dereferences GLOBAL_COMBAT_PROFILE.
AttackTypeNew(sprinting, on_ground, fall_distance, sword, attack_cooldown_progress) ==
    /\ combat.loaded
    /\ LET cb == Deref(combat)
       IN  combat' = [cb EXCEPT !.attack =
              [sprinting |-> sprinting, on_ground |-> on_ground,
               fall_distance |-> fall_distance, sword |-> sword,
               attack_cooldown_progress |-> attack_cooldown_progress,
               result |-> AttackType(cb.profile, sprinting, on_ground,
                                     fall_distance, sword,
                                     attack_cooldown_progress)]]
    /\ UNCHANGED <<sched, bus, sign, pdc, nbt, once>>

\* handle_knockback / player_attack_sound: another access to the profile.
HandleKnockback ==
    /\ combat.loaded
    /\ combat.profile = "unset" \/ combat.attack.result # "none"
    /\ combat' = [Deref(combat) EXCEPT !.attack = NoAttack]
    /\ UNCHANGED <<sched, bus, sign, pdc, nbt, once>>

NextCombat ==
    \/ \E combat_type \in CombatTypes : LoadConfig(combat_type)
    \/ \E sprinting \in BOOLEAN, on_ground \in BOOLEAN,
          fall_distance \in FallDistances, sword \in BOOLEAN,
          attack_cooldown_progress \in CooldownProgress :
          AttackTypeNew(sprinting, on_ground, fall_distance, sword,
                        attack_cooldown_progress)
    \/ HandleKnockback

SpecCombat == Init /\ [][NextCombat]_vars

\* ===================================================== InlineOnceHandler
\* run_task_later!, lines 36-45: the handler is built with a fresh flag and
\* the stored future.
OnceNew ==
    /\ ~once.built
    /\ once' = [once EXCEPT !.built = TRUE, !.cancel_flag = FALSE,
                            !.future = LaterFuture]
    /\ UNCHANGED <<sched, bus, sign, pdc, nbt, combat>>

\* A store(true) on cancel_flag, which the handler shares as an
\* Arc<AtomicBool>, at any moment after the handler is built.
OnceStoreFlag ==
    /\ once.built
    /\ ~once.cancel_flag
    /\ once' = [once EXCEPT !.cancel_flag = TRUE]
    /\ UNCHANGED <<sched, bus, sign, pdc, nbt, combat>>

\* InlineOnceHandler::run, lines 20-23: the flag is loaded; run() returns
\* when it is set.
OnceRunLoad(r) ==
    /\ once.built
    /\ once.run[r].pos = "idle"
    /\ once.run[r].calls < MaxRuns
    /\ once' = [once EXCEPT !.run[r] =
          [pos |-> IF once.cancel_flag THEN "idle" ELSE "lock",
           calls |-> once.run[r].calls + 1,
           flag_at_start |-> once.cancel_flag,
           fut |-> "none", awaited |-> FALSE]]
    /\ UNCHANGED <<sched, bus, sign, pdc, nbt, combat>>

\* Line 26: `self.future.lock().unwrap()`.
OnceRunLock(r) ==
    /\ once.run[r].pos = "lock"
    /\ once.mutex = "free"
    /\ once' = [once EXCEPT !.mutex = r, !.run[r].pos = "take"]
    /\ UNCHANGED <<sched, bus, sign, pdc, nbt, combat>>

\* Lines 27-28 with `guard.as_ref()` in place of `guard.take()`: the future
\* stays in the Option.
OnceRunPeek(r) ==
    /\ once.run[r].pos = "take"
    /\ once.mutex = r
    /\ once' = [once EXCEPT !.mutex = "free",
                            !.run[r].fut = once.future,
                            !.run[r].pos = "await"]
    /\ UNCHANGED <<sched, bus, sign, pdc, nbt, combat>>

\* Lines 27-28: `guard.take()` leaves None behind; the guard is dropped at
\* the end of the block.
OnceRunTake(r) ==
    /\ once.run[r].pos = "take"
    /\ once.mutex = r
    /\ once' = [once EXCEPT !.mutex = "free", !.future = "none",
                            !.run[r].fut = once.future,
                            !.run[r].pos = "await"]
    /\ UNCHANGED <<sched, bus, sign, pdc, nbt, combat>>

\* Lines 30-32: `if let Some(fut) = fut { fut.await; }`.
OnceRunAwait(r) ==
    /\ once.run[r].pos = "await"
    /\ once' = [once EXCEPT
          !.awaited = @ + (IF once.run[r].fut # "none" THEN 1 ELSE 0),
          !.run[r].awaited = once.run[r].fut # "none",
          !.run[r].pos = "idle"]
    /\ UNCHANGED <<sched, bus, sign, pdc, nbt, combat>>

NextOnce ==
    \/ OnceNew
    \/ OnceStoreFlag
    \/ \E r \in Runners : OnceRunLoad(r)
    \/ \E r \in Runners : OnceRunLock(r)
    \/ \E r \in Runners : OnceRunTake(r)
    \/ \E r \in Runners : OnceRunAwait(r)

SpecOnce == Init /\ [][NextOnce]_vars

\* ================================================================ claims
\* The counter value at which a once-task scheduled at t with delay d is
\* first due: t + d, and with d = 0 the next tick() call.
FirstDue(h) == IF h.arg = 0 THEN h.t + 1 ELSE h.t + h.arg

\* C1: a task created by schedule_once(delay_ticks, handler) while the
\* counter is t has run() dispatched at most once, and never during a tick()
\* whose counter value is smaller than t + delay_ticks.
C1_OnceAtMostOnceNotEarly ==
    \A id \in Ids :
        hist[id].kind = "Later" =>
            /\ hist[id].runs <= 1
            /\ hist[id].runs >= 1 => hist[id].first_run >= hist[id].t + hist[id].arg

\* C2: a once-task scheduled with delay d at tick t whose token is never set
\* runs exactly once, during the first tick() call in which the counter
\* reaches a value >= t + d (with d = 0 the next call), and in no earlier
\* call nor inside schedule_once.
C2_OnceExactlyOnceWhenDue ==
    \A id \in Ids :
        (hist[id].kind = "Later" /\ ~flags[id]) =>
            IF tick_count >= FirstDue(hist[id])
            THEN hist[id].runs = 1 /\ hist[id].first_run = FirstDue(hist[id])
            ELSE hist[id].runs = 0

\* C3: schedule_repeating(0, handler) is rejected: no task is added to the
\* pending set and the handler is never run.
C3_ZeroIntervalRejected ==
    \A id \in Ids :
        (hist[id].kind = "Timer" /\ hist[id].arg = 0) =>
            id \notin Pending /\ hist[id].runs = 0

\* C4: a repeating task scheduled with interval i > 0 at tick t0 and never
\* cancelled has run() dispatched exactly once at each of t0+i, t0+2i, ...
\* and at no other tick, stays pending, and its next due tick is the next
\* multiple.
C4_RepeatingEveryInterval ==
    \A id \in Ids :
        (hist[id].kind = "Timer" /\ hist[id].arg > 0 /\ ~flags[id]) =>
            LET h == hist[id]
                n == (tick_count - h.t) \div h.arg
            IN /\ id \in Pending
               /\ h.runs = n
               /\ n > 0 => h.first_run = h.t + h.arg /\ h.last_run = h.t + n * h.arg
               /\ id \in Pending => DueTick(TaskOf(id)) = h.t + (n + 1) * h.arg

\* C5: if the token of a repeating task is set while the counter is c, no
\* run() of that task is dispatched at any later tick: the last dispatch is
\* at a tick <= c and the number of dispatches stays what it was at the set.
C5_NoRunAfterTokenSet ==
    \A id \in Ids :
        (hist[id].kind = "Timer" /\ hist[id].set_at >= 0) =>
            /\ hist[id].last_run <= hist[id].set_at
            /\ hist[id].runs = hist[id].runs_at_set

\* A repeating task that ran, was cancelled, was removed by a later tick()
\* and stayed silent over a tick at which it would have been due again.
C5_Witness ==
    \E id \in Ids :
        /\ hist[id].kind = "Timer"
        /\ hist[id].arg \in 1 .. MaxDelay
        /\ hist[id].set_at >= 0
        /\ hist[id].runs >= 1
        /\ hist[id].cancels = 1
        /\ id \notin Pending
        /\ tick_count >= hist[id].last_run + hist[id].arg

\* C6: a token set before any run() was dispatched means run() is never
\* dispatched; a token set after a dispatch leaves that dispatch in place
\* (the count of dispatches never drops and the spawned run() stays spawned).
C6_CancelBeforeDispatch ==
    /\ [](\A id \in Ids :
            (hist[id].set_at >= 0 /\ hist[id].runs_at_set = 0) => hist[id].runs = 0)
    /\ [][\A id \in Ids :
            /\ hist'[id].runs >= hist[id].runs
            /\ (~flags[id] /\ flags'[id]) => spawned' = spawned]_vars

\* One task cancelled before its due tick() and passed over by it, another
\* cancelled after its run() was dispatched, with every dispatched run()
\* still in flight.
C6_Witness ==
    /\ \E id \in Ids :
          /\ hist[id].kind # "none"
          /\ hist[id].set_at >= 0
          /\ hist[id].runs_at_set = 0
          /\ hist[id].cancels = 1
          /\ hist[id].runs = 0
          /\ U64Add(hist[id].t, hist[id].arg) <= tick_count
    /\ \E id \in Ids :
          /\ hist[id].set_at >= 0
          /\ hist[id].runs_at_set >= 1
          /\ hist[id].runs = hist[id].runs_at_set
          /\ spawned.run >= hist[id].runs

\* The pending tasks whose token is set.
CancelledPending == {id \in Pending : flags[id]}

\* C7: in tick(), every pending task whose token is set is removed and gets
\* cancel() and no run(), whether or not it is due; the cancel() calls are
\* spawned, still in flight when tick() returns.
C7_CancelTakesPrecedence ==
    [][tick_calls' # tick_calls =>
        /\ \A id \in CancelledPending :
              /\ id \notin Pending'
              /\ hist'[id].cancels = hist[id].cancels + 1
              /\ hist'[id].runs = hist[id].runs
        /\ spawned'.cancel = spawned.cancel + Cardinality(CancelledPending)]_vars

\* A once-task removed with cancel() by the tick() at which it was due, and
\* another removed with cancel() by a tick() at which it was not yet due.
C7_Witness ==
    /\ \E id \in Ids :
          /\ hist[id].kind = "Later"
          /\ hist[id].arg <= MaxDelay
          /\ hist[id].cancels = 1
          /\ hist[id].runs = 0
          /\ hist[id].t + hist[id].arg <= hist[id].set_at + 1
    /\ \E id \in Ids :
          /\ hist[id].kind # "none"
          /\ hist[id].arg <= MaxDelay
          /\ hist[id].cancels = 1
          /\ hist[id].runs = 0
          /\ hist[id].t + hist[id].arg > hist[id].set_at + 1

\* C8: the counter starts at 0, every tick() call adds exactly 1 and
\* evaluates each task pending at its start exactly once; no other
\* operation changes the counter or evaluates a task.
C8_CounterAndScan ==
    /\ tick_count = 0
    /\ [][IF tick_calls' # tick_calls
          THEN /\ tick_count' = tick_count + 1
               /\ \A id \in Ids :
                     hist'[id].evals =
                        hist[id].evals + (IF id \in Pending THEN 1 ELSE 0)
          ELSE /\ tick_count' = tick_count
               /\ \A id \in Ids : hist'[id].evals = hist[id].evals]_vars

\* Several tick() calls over two pending tasks, one scheduled after the
\* counter had advanced.
C8_Witness ==
    /\ tick_count >= 3
    /\ \E id \in Ids : hist[id].kind # "none" /\ hist[id].t = 0 /\ hist[id].evals >= 3
    /\ \E id \in Ids : hist[id].kind # "none" /\ hist[id].t >= 1 /\ hist[id].evals >= 2

\* C9: a spawned handler that ends, by a panic or normally, changes nothing
\* of the scheduler (pending set, counter, flags); after a panic tick() and
\* schedule_* still go through.
C9_HandlerPanicIsolated ==
    /\ [][(panicked' # panicked \/ spawned'.run < spawned.run
              \/ spawned'.cancel < spawned.cancel) =>
            /\ tasks' = tasks
            /\ tick_count' = tick_count
            /\ flags' = flags
            /\ created' = created]_vars
    /\ [](panicked >= 0 =>
            /\ tick_calls < MaxTick => ENABLED Tick
            /\ created < MaxTasks => ENABLED ScheduleOnce(0)
            /\ created < MaxTasks => ENABLED ScheduleRepeating(1))

\* A handler panicked while a repeating task was pending; a task scheduled
\* no earlier had run() dispatched by a later tick().
C9_Witness ==
    /\ panicked >= 0
    /\ \E id \in Ids :
          /\ hist[id].kind = "Timer"
          /\ hist[id].first_run \in 0 .. panicked
          /\ hist[id].last_run > panicked
    /\ \E id \in Ids :
          /\ hist[id].kind # "none"
          /\ hist[id].t >= panicked
          /\ hist[id].first_run > panicked

\* C10: tick() never waits for a handler: whatever is in flight, the next
\* tick() call can be made and completes its scan.
C10_TickNeverWaits ==
    tick_calls < MaxTick => ENABLED Tick

\* The run() of a once-task dispatched at tick T is still in flight (no
\* dispatched run() has ended) after the scans of ticks T+1 and T+2.
C10_Witness ==
    \E id \in Ids :
        /\ hist[id].kind = "Later"
        /\ hist[id].runs = 1
        /\ spawned.run >= 1
        /\ \A other \in Ids \ {id} : hist[other].runs = 0
        /\ tick_count >= hist[id].first_run + 2

\* C11 as stated: whatever the interleaving of the concurrent callers, the
\* scans happen in increasing order of the counter value each tick() call
\* obtained (everything due at T is evaluated before the scan for T+1).
C11_ScansInCounterOrder ==
    \A i, j \in 1 .. Len(scans) :
        i < j => scans[i].current_tick < scans[j].current_tick

\* C11: whatever the interleaving of the concurrent callers of tick(),
\* schedule_once and schedule_repeating, two tick() scans never overlap (at
\* most one thread is under the `tasks` guard), every counter value is
\* scanned at most once, and the scans of the tick() calls made by one
\* thread happen in increasing order of the counter values they obtained.
C11_ScansSerialised ==
    /\ Cardinality(Holders) <= 1
    /\ \A i, j \in 1 .. Len(scans) :
          i < j =>
            /\ scans[i].current_tick # scans[j].current_tick
            /\ scans[i].p = scans[j].p =>
                  scans[i].current_tick < scans[j].current_tick

\* Two tick() calls in flight at once, by different threads: the one with
\* the larger counter value scanned first, a schedule_* call pushed its
\* task between the two scans, and a third tick() waits for the guard.
C11_Witness ==
    /\ Len(scans) >= 2
    /\ scans[1].p # scans[2].p
    /\ scans[1].current_tick > scans[2].current_tick
    /\ \E id \in Ids : hist[id].kind # "none" /\ hist[id].evals = 1
    /\ \E p \in TickProcs : pc[p] = "lock"

\* C12: handler code never runs under the `tasks` guard: the guard is held
\* only by a thread inside its scan or its push, which finishes without
\* waiting for anything, so a run() that calls schedule_* on the same
\* scheduler and a concurrent tick() both get the lock.
C12_HandlersOutsideLock ==
    /\ \A p \in Holders : pc[p] # "await"
    /\ lock # "free" =>
          /\ lock \in Holders
          /\ (\E p \in Procs : pc[p] = "lock") =>
                ENABLED (TickScan(lock) \/ SchedPush(lock))
    /\ (lock = "free" /\ pc["h1"] = "lock") => ENABLED SchedLock("h1")
    /\ \A p \in TickProcs :
          (lock = "free" /\ pc[p] = "lock") => ENABLED TickLock(p)

\* The body of a spawned run() is inside schedule_*, holding the guard for
\* its push, while a tick() call that has its counter value waits for it.
C12_Witness ==
    /\ pc["h1"] = "push"
    /\ lock = "h1"
    /\ spawned.run >= 1
    /\ \E p \in TickProcs : pc[p] = "lock"

\* C13: the flag a schedule_* call returns is the very flag stored in the
\* task it pushed; once the caller has set it, the next tick() removes that
\* task with cancel(), and no task whose own flag was not set is cancelled.
C13_ReturnedTokenIsTaskToken ==
    /\ \A i \in 1 .. Len(tasks) :
          tasks[i].cancel_flag = ReturnedFlag(tasks[i].handler)
    /\ \A id \in Ids :
          /\ hist[id].cancels <= 1
          /\ hist[id].cancels = 1 => hist[id].set_at \in 0 .. tick_count - 1
          /\ hist[id].set_at = -1 => ~flags[id]
          /\ (hist[id].set_at >= 0 /\ tick_count > hist[id].set_at) =>
                id \notin Pending

\* Two tasks were pending, the flag returned for one of them was set, and
\* the next tick() cancelled that one and evaluated and kept the other.
C13_Witness ==
    \E id, other \in Ids :
        /\ id # other
        /\ hist[id].set_at >= 0
        /\ hist[id].cancels = 1
        /\ id \notin Pending
        /\ hist[other].set_at = -1
        /\ hist[other].t <= hist[id].set_at
        /\ hist[other].cancels = 0
        /\ other \in Pending
        /\ tick_count = hist[id].set_at + 1

\* The counter value at which a pending task was scheduled or, for a
\* repeating task that has run, last rescheduled.
ScheduledAt(id) ==
    IF hist[id].kind = "Timer" /\ hist[id].runs > 0 THEN hist[id].last_run
    ELSE hist[id].t

\* C18: the due tick of every pending task is at least the counter value at
\* which the task was scheduled or last rescheduled, whatever u64 delay or
\* interval was given (no wrap-around).
C18_DueNotBeforeScheduled ==
    \A id \in Pending : DueTick(TaskOf(id)) >= ScheduledAt(id)

\* C19: a repeating task dispatched by the tick() with counter T gets the
\* next due tick `T + interval_ticks` (the u64 sum, counted from T and not
\* from the due tick it had), and no task has more run() dispatches than
\* tick() calls that evaluated it.
C19_RescheduleFromCurrentTick ==
    \A id \in Ids :
        /\ hist[id].runs <= hist[id].evals
        /\ hist[id].evals <= tick_calls
        /\ (id \in Pending /\ hist[id].kind = "Timer" /\ hist[id].runs > 0) =>
              /\ DueTick(TaskOf(id)) = U64Add(hist[id].last_run, hist[id].arg)
              /\ hist[id].last_run + hist[id].arg < U64Range =>
                    DueTick(TaskOf(id)) = hist[id].last_run + hist[id].arg

\* A repeating task with interval 0 scheduled at counter 0: due at 0, first
\* evaluated (late) by the tick() with counter 1, again by the one with
\* counter 2, one run() each, now due at 2; and a repeating task with a
\* positive interval dispatched once and due one interval later.
C19_Witness ==
    /\ \E id \in Pending :
          /\ hist[id].kind = "Timer" /\ hist[id].arg = 0 /\ hist[id].t = 0
          /\ tick_count = 2
          /\ hist[id].runs = 2
          /\ DueTick(TaskOf(id)) = 2
    /\ \E id \in Pending :
          /\ hist[id].kind = "Timer" /\ hist[id].arg \in 1 .. MaxDelay
          /\ hist[id].runs = 1
          /\ DueTick(TaskOf(id)) = hist[id].last_run + hist[id].arg

\* C14: a timer created with run_task_timer! of task_timer.rs is cancelled
\* through what the macro hands out: once the returned flag is set, or
\* `cancel` is called in the body, no later tick() dispatches the body and
\* the task leaves the pending set at the next tick().
C14_InlineTimerCancellable ==
    \A id \in Ids :
        (handlers[id].kind = "InlineHandler" /\ exec[id].set_at >= 0) =>
            /\ hist[id].runs = exec[id].runs_at_set
            /\ tick_count > exec[id].set_at => id \notin Pending

\* C15: the body given to run_task_later! of task/macros.rs is not executed
\* by the macro call; it is executed exactly once, by the run() that the
\* scheduler dispatches.
C15_LaterBodyRunsAtDispatch ==
    \A id \in Ids :
        exec[id].by = "run_task_later" =>
            /\ exec[id].body_at_call = 0
            /\ exec[id].body_at_call + exec[id].body_at_run <= 1
            /\ exec[id].started >= 1 => exec[id].body_at_run = 1

\* C16: run_task_timer! of task/macros.rs called at t0 with an interval
\* i > 0 returns after scheduling without executing the body, and nothing
\* it scheduled is dispatched before the tick t0 + i.
C16_TimerMacroDefersBody ==
    /\ tm.pos \notin {"deadlock", "panic"}
    /\ \A id \in Ids :
          (exec[id].by = "run_task_timer" /\ tm.interval \in 1 .. MaxDelay) =>
              /\ exec[id].body_at_call = 0
              /\ hist[id].runs > 0 => hist[id].first_run >= tm.t0 + tm.interval

\* C17: a cancellation token is false when its task is created, no step
\* changes a token from true to false, and a cancel on a token that is
\* already true changes nothing of the scheduler.
C17_TokensMonotone ==
    [][\A id \in Ids :
          /\ flags[id] => flags'[id]
          /\ handlers[id].cancel_flag => handlers'[id].cancel_flag
          /\ (created' # created /\ id = created') =>
                ~flags'[id] /\ ~handlers'[id].cancel_flag
          /\ (flags[id] /\ exec'[id].direct_cancels # exec[id].direct_cancels) =>
                /\ flags' = flags
                /\ tasks' = tasks
                /\ hist' = hist]_vars

\* A token set a second time while its task was still pending, and the
\* token of a task created later still false.
C17_Witness ==
    \E id, other \in Ids :
        /\ flags[id]
        /\ exec[id].direct_cancels = 2
        /\ id \in Pending
        /\ other > id
        /\ other <= created
        /\ ~flags[other]

\* C20: a cancel operation (a store into the returned flag,
\* RepeatingHandle::cancel, ScheduledHandle::cancel) leaves the pending set
\* and the counter unchanged and invokes no method of the handler; tasks
\* are removed and cancel() is invoked only by tick().
C20_CancelOnlySignals ==
    [][/\ (\E id \in Ids : flags'[id] # flags[id]) =>
             /\ tasks' = tasks
             /\ tick_count' = tick_count
             /\ spawned' = spawned
             /\ \A id \in Ids : exec'[id].direct_cancels = exec[id].direct_cancels
       /\ tick_calls' = tick_calls =>
             \A id \in Ids :
                /\ hist'[id].cancels = hist[id].cancels
                /\ exec'[id].direct_cancels = exec[id].direct_cancels
                /\ id \in Pending => id \in Pending']_vars

\* The ids of a list of listeners, in order.
IdsOf(list) == [i \in 1..Len(list) |-> list[i].id]

\* C21: after send_cancellable! the guarded action is applied iff the event
\* fire() returned is not cancelled: no block runs before fire() has
\* completed, 'after runs exactly when the returned event is not cancelled,
\* 'cancelled exactly when it is, and of two given blocks exactly one runs.
C21_BlocksFollowCancelled ==
    \A c \in Callers :
        /\ call[c].ran # {} =>
              /\ call[c].pos = "done"
              /\ call[c].cur = "none"
              /\ \A j \in 1..Len(call[c].log) : call[c].log[j].outcome # "running"
        /\ call[c].pos = "done" =>
              /\ "after" \in call[c].ran <=>
                    (call[c].has_after /\ ~call[c].event.cancelled)
              /\ "cancelled" \in call[c].ran <=>
                    (call[c].has_cancelled /\ call[c].event.cancelled)
              /\ (call[c].has_after /\ call[c].has_cancelled) =>
                    Cardinality(call[c].ran) = 1

C21_Witness ==
    \E c \in Callers :
        /\ call[c].pos = "done"
        /\ call[c].has_after /\ call[c].has_cancelled
        /\ call[c].event.cancelled
        /\ call[c].ran = {"cancelled"}
        /\ Len(call[c].log) = 2

\* C22: fire() invokes the listeners registered for the event's kind one at
\* a time, in ascending priority with ties in registration order, and returns
\* only after every one of them has completed.
C22_ListenersInPriorityOrder ==
    \A c \in Callers :
        LET log == call[c].log
            listeners == call[c].snapshot
        IN  /\ Len(log) <= Len(listeners)
            /\ \A j \in 1..Len(log) :
                  /\ log[j].id = listeners[j].id
                  /\ listeners[j].kind = call[c].event.kind
                  /\ log[j].outcome = "running" =>
                        j = Len(log) /\ call[c].pos = "fire"
            /\ \A i, j \in 1..Len(listeners) :
                  i < j =>
                     \/ listeners[i].priority < listeners[j].priority
                     \/ /\ listeners[i].priority = listeners[j].priority
                        /\ listeners[i].id < listeners[j].id
            /\ call[c].pos \in {"returned", "done"} =>
                  /\ Len(log) = Len(listeners)
                  /\ \A j \in 1..Len(log) : log[j].outcome # "running"

C22_Witness ==
    \E c \in Callers :
        /\ call[c].pos = "returned"
        /\ Len(call[c].log) = 3
        /\ call[c].snapshot[1].id > call[c].snapshot[2].id
        /\ call[c].snapshot[2].priority = call[c].snapshot[3].priority

\* C23: cancellation does not short-circuit the dispatch: after a listener
\* has set cancelled = true the next listener is still invoked and observes
\* cancelled() == true on entry, and unless a later listener clears the flag
\* the event fire() returns has cancelled == true.
C23_CancelDoesNotShortCircuit ==
    \A c \in Callers :
        \A j \in 1..Len(call[c].log) :
            call[c].log[j].outcome = "cancel" =>
               /\ j < Len(call[c].log) => call[c].log[j + 1].cancelled
               /\ call[c].pos \in {"returned", "done"} =>
                     /\ Len(call[c].log) = Len(call[c].snapshot)
                     /\ (\A k \in (j + 1)..Len(call[c].log) :
                            call[c].log[k].outcome # "uncancel")
                           => call[c].event.cancelled

C23_Witness ==
    \E c \in Callers :
        /\ call[c].pos = "returned"
        /\ call[c].event = Event("X", TRUE)
        /\ Len(call[c].log) = 2
        /\ call[c].snapshot[1].priority = 0
        /\ call[c].snapshot[2].priority = 10
        /\ ~call[c].log[1].cancelled
        /\ call[c].log[1].outcome = "cancel"
        /\ call[c].log[2].cancelled
        /\ call[c].log[2].outcome = "ok"

\* C24: a failing listener is isolated: fire() still invokes every remaining
\* listener in order and still returns the event to its caller.
C24_FailingListenerIsolated ==
    \A c \in Callers :
        (\E j \in 1..Len(call[c].log) : call[c].log[j].outcome = "fail") =>
            /\ call[c].pos \in {"fire", "returned", "done"}
            /\ call[c].pos \in {"returned", "done"} =>
                  IdsOf(call[c].log) = IdsOf(call[c].snapshot)
            /\ (call[c].pos = "fire" /\ call[c].cur = "none") =>
                  call[c].idx = Len(call[c].log)

C24_Witness ==
    \E c \in Callers :
        /\ call[c].pos = "done"
        /\ Len(call[c].log) = 3
        /\ call[c].log[1].outcome = "fail"
        /\ call[c].log[3].outcome = "cancel"
        /\ call[c].ran = {"cancelled"}

\* C25: while a fire() started by send_cancellable! is awaiting its listeners
\* the lock of the plugin manager is not held by it, so an operation that
\* needs the plugin manager exclusively, one started by a listener of this
\* fire() included, is not kept waiting.
C25_NoLockWhileAwaitingListeners ==
    \A c \in Callers :
        /\ call[c].cur # "none" => ~call[c].guard
        /\ call[c].cur = "want_write" => rw.readers = 0

\* C26: the listener list a fire() iterates cannot change during that call:
\* the listeners of the event's kind stay those found when the read guard
\* was taken until fire() has returned.
C26_ListenersStableDuringFire ==
    \A c \in Callers :
        call[c].pos = "fire" =>
            /\ ListenersOf(call[c].event.kind) = call[c].snapshot
            /\ rw.writer = "none"

C26_Witness ==
    /\ \E c \in Callers :
          /\ call[c].pos = "fire"
          /\ call[c].cur = "want_write"
          /\ Len(call[c].snapshot) = 2
    /\ registered < MaxListeners

\* C27: set_line(index, line) with an index the event has sets or replaces
\* that line: afterwards line(index) is the given line, every other line
\* keeps its index and content, and the number of lines is unchanged.
C27_SetLineReplaces ==
    (sign.state = "set" /\ sign.index < Len(sign.before)) =>
        /\ Line(sign.content, sign.index) = sign.line
        /\ Len(Lines(sign.content)) = Len(Lines(sign.before))
        /\ \A i \in 0..(Len(sign.before) - 1) :
              i # sign.index => Line(sign.content, i) = Line(sign.before, i)

\* Whether a string has a non-ASCII character, and whether two strings
\* differ at most in the case of ASCII letters.
NonAscii(s) == \E i \in 1..Len(s) : s[i] = "é"
SameIgnoringCase(s, t) ==
    /\ Len(s) = Len(t)
    /\ \A i \in 1..Len(s) : s[i] = t[i] \/ {s[i], t[i]} = {"A", "a"}

\* C28: NamespacedKey::new returns Err(NonAsciiNamespace) whenever the
\* namespace is not ASCII, Err(NonAsciiKey) when only the key is not, and
\* otherwise Ok with both parts in lower case; keys that differ only in ASCII
\* case are equal and address the same entry of a PersistentDataContainer.
C28_NamespacedKeyNew ==
    pdc.op \in {"insert", "remove"} =>
        LET r == pdc.result
        IN  /\ NonAscii(pdc.namespace) => r = Err("NonAsciiNamespace")
            /\ (~NonAscii(pdc.namespace) /\ NonAscii(pdc.key)) =>
                  r = Err("NonAsciiKey")
            /\ (~NonAscii(pdc.namespace) /\ ~NonAscii(pdc.key)) =>
                  /\ r.ok
                  /\ SameIgnoringCase(r.value.namespace, pdc.namespace)
                  /\ SameIgnoringCase(r.value.key, pdc.key)
                  /\ \A i \in 1..Len(r.value.namespace) : r.value.namespace[i] # "A"
                  /\ \A i \in 1..Len(r.value.key) : r.value.key[i] # "A"
            /\ r.ok =>
                  \A namespace \in Strings(MaxStrLen), key \in Strings(MaxStrLen) :
                      (SameIgnoringCase(namespace, pdc.namespace)
                          /\ SameIgnoringCase(key, pdc.key)) =>
                         LET k == NamespacedKeyNew(namespace, key)
                         IN  /\ k = r
                             /\ pdc.op = "insert" =>
                                   PdcGet(pdc.data, k.value) = Ok(pdc.value)
                             /\ pdc.op = "remove" =>
                                   ~PdcContainsKey(pdc.data, k.value)

C28_Witness ==
    /\ pdc.op = "insert"
    /\ pdc.namespace = <<"A">>
    /\ pdc.key = <<"A">>
    /\ pdc.value = 2
    /\ Cardinality(pdc.data) = 2
    /\ PdcGet(pdc.data, [namespace |-> <<"a">>, key |-> <<"a">>]) = Ok(2)

\* C29: when schedule_*, cancel and tick() calls do not overlap and every
\* repeating interval is > 0, then after each tick() returns every task still
\* pending has a due tick strictly greater than the tick counter, and no
\* pending task has a token that was already set when that tick() began.
C29_NoOverdueOrCancelledAfterTick ==
    [][ (/\ tick_calls' # tick_calls
         /\ \A id \in Ids : hist[id].kind = "Timer" => hist[id].arg > 0)
        => \A i \in 1..Len(tasks') :
              /\ DueTick(tasks'[i]) > tick_count'
              /\ ~flags[tasks'[i].cancel_flag] ]_vars

\* C30: a task added by schedule_once or schedule_repeating while tick()
\* calls execute concurrently is never lost and never run early: with its
\* token never set, a once-task stays pending until it is dispatched, is
\* dispatched at most once and only at a tick >= (counter read at scheduling)
\* + delay_ticks; a repeating task stays pending and is first dispatched at
\* a tick >= (counter read at scheduling) + interval_ticks.
C30_ConcurrentScheduleNotLostNotEarly ==
    \A id \in Ids :
        (hist[id].kind # "none" /\ ~flags[id]) =>
            /\ hist[id].runs >= 1 => hist[id].first_run >= hist[id].t + hist[id].arg
            /\ hist[id].kind = "Later" =>
                  /\ hist[id].runs <= 1
                  /\ hist[id].runs = 0 <=> id \in Pending
            /\ hist[id].kind = "Timer" => id \in Pending

\* C31: for every scheduled task, over any sequence of tick() calls, token
\* sets and handle cancel calls, the handler's cancel() is invoked at most
\* once (by tick() and by ScheduledHandle::cancel taken together).
C31_CancelInvokedAtMostOnce ==
    \A id \in Ids : hist[id].cancels + exec[id].direct_cancels <= 1

\* C32: for a once-task the scheduler dispatches either run() or cancel(),
\* never both and neither more than once, and the tick() that dispatches one
\* of them removes the task from the pending set, so no later tick()
\* evaluates it, even if its token is set afterwards.
C32_OnceRunOrCancelOnce ==
    \A id \in Ids :
        hist[id].kind = "Later" =>
            /\ hist[id].runs + hist[id].cancels <= 1
            /\ hist[id].runs + hist[id].cancels = 1 <=> id \notin Pending
            /\ hist[id].runs = 1 =>
                  hist[id].evals = hist[id].first_run - hist[id].t

C32_Witness ==
    \E id \in Ids :
        /\ hist[id].kind = "Later"
        /\ hist[id].runs = 1
        /\ flags[id]
        /\ hist[id].set_at >= hist[id].first_run
        /\ tick_count > hist[id].set_at
        /\ hist[id].cancels = 0

\* C33: tick() leaves every pending task that is neither cancelled nor due
\* as it was, keeps the surviving tasks in insertion order, and changes
\* nothing but next_run_tick in a repeating task it dispatches;
\* schedule_once / schedule_repeating only append one task.
C33_TickAndScheduleFrame ==
    [][ /\ tick_calls' # tick_calls =>
            /\ \A i \in 1..Len(tasks) :
                  (~flags[tasks[i].cancel_flag] /\ DueTick(tasks[i]) > tick_count')
                     => \E j \in 1..Len(tasks') : tasks'[j] = tasks[i]
            /\ \A j \in 1..Len(tasks') :
                  \E i \in 1..Len(tasks) :
                     /\ tasks'[j].handler = tasks[i].handler
                     /\ tasks'[j].cancel_flag = tasks[i].cancel_flag
                     /\ tasks'[j].task_type.tag = tasks[i].task_type.tag
                     /\ tasks[i].task_type.tag = "Later" => tasks'[j] = tasks[i]
                     /\ tasks[i].task_type.tag = "Timer" =>
                           tasks'[j].task_type.interval_ticks
                              = tasks[i].task_type.interval_ticks
            /\ \A j1, j2 \in 1..Len(tasks') :
                  j1 < j2 =>
                     \E i1, i2 \in 1..Len(tasks) :
                        /\ i1 < i2
                        /\ tasks[i1].handler = tasks'[j1].handler
                        /\ tasks[i2].handler = tasks'[j2].handler
        /\ created' # created =>
            /\ Len(tasks') = Len(tasks) + 1
            /\ SubSeq(tasks', 1, Len(tasks)) = tasks ]_vars

C33_Witness ==
    /\ Len(tasks) = 2
    /\ hist[1].kind = "Timer" /\ hist[1].runs >= 1
    /\ hist[2].kind = "Later" /\ hist[2].evals >= 1 /\ hist[2].runs = 0
    /\ tasks[1].handler = 1 /\ tasks[2].handler = 2

\* The listener invocations of a fire that called set_cancelled.
Writes(log) == {j \in 1..Len(log) : log[j].outcome \in {"cancel", "uncancel"}}

\* C34: set_cancelled(b) followed by cancelled() returns b, for b = true and
\* b = false, and changes no other field; so the cancelled value of the event
\* fire() returns is the value written by the last listener that called
\* set_cancelled, and a later listener can un-cancel an event.
C34_LastSetCancelledWins ==
    \A c \in Callers :
        LET log == call[c].log
        IN  /\ \A j \in Writes(log) :
                  j < Len(log) =>
                     log[j + 1].cancelled = (log[j].outcome = "cancel")
            /\ \A j \in 1..Len(call[c].snapshot) :
                  call[c].snapshot[j].kind = call[c].event.kind
            /\ call[c].pos \in {"returned", "done"} =>
                  Cancelled(call[c].event) =
                     IF Writes(log) = {} THEN FALSE
                     ELSE log[CHOOSE j \in Writes(log) :
                                 \A k \in Writes(log) : k <= j].outcome = "cancel"

C34_Witness ==
    \E c \in Callers :
        /\ call[c].pos = "done"
        /\ Len(call[c].log) = 3
        /\ call[c].log[1].outcome = "cancel"
        /\ call[c].log[2].outcome = "uncancel"
        /\ call[c].log[3].cancelled = FALSE
        /\ call[c].log[3].outcome = "ok"
        /\ call[c].ran = {"after"}

\* C35: every constructor of a cancellable event creates the event with
\* cancelled == false, so an event fired with no listener, or with listeners
\* that never call set_cancelled, lets the guarded action run.
C35_NewEventNotCancelled ==
    \A c \in Callers :
        /\ (call[c].pos \in {"read", "fire"} /\ call[c].log = <<>>) =>
              ~Cancelled(call[c].event)
        /\ (call[c].pos = "done" /\ Writes(call[c].log) = {}) =>
              /\ ~Cancelled(call[c].event)
              /\ call[c].has_after => "after" \in call[c].ran
              /\ "cancelled" \notin call[c].ran

C35_Witness ==
    \E c \in Callers :
        /\ call[c].pos = "done"
        /\ call[c].has_after /\ call[c].has_cancelled
        /\ Len(call[c].log) = 2
        /\ Writes(call[c].log) = {}
        /\ call[c].ran = {"after"}

\* The values the round trip is claimed for: Bool, I32, I64, String, Bytes
\* and lists of I32 / String.
RoundTrips(value) ==
    \/ value.tag \in {"Bool", "I32", "I64", "String", "Bytes"}
    \/ /\ value.tag = "List"
       /\ \A i \in 1..Len(value.v) : value.v[i].tag \in {"I32", "String"}

\* C36: from_pdc converts every container that insert() can build without
\* failing, for every PersistentDataType variant and lists of any element
\* variant; and for containers holding only Bool, I32, I64, String, Bytes and
\* lists of I32 / String, to_pdc(from_pdc(c)) has exactly the pairs of c.
C36_FromPdcTotalAndRoundTrip ==
    nbt.state # "none" =>
        /\ nbt.state = "ok"
        /\ (\A e \in nbt.of : RoundTrips(e.value)) => nbt.back = nbt.of

\* Whether two strings differ at most in the case of their letters.
EqualsIgnoringCase(s, t) ==
    /\ Len(s) = Len(t)
    /\ \A i \in 1..Len(s) :
          \/ s[i] = t[i]
          \/ <<s[i], t[i]>> \in UpperLower
          \/ <<t[i], s[i]>> \in UpperLower

C38_AttackTypeFirstMatch ==
    combat.attack.result # "none" =>
        LET a == combat.attack
            strong == combat.profile = "Classic" \/ a.attack_cooldown_progress > 90
        IN  /\ a.result = "Knockback" <=> (a.sprinting /\ strong)
            /\ a.result = "Critical" <=>
                  (~a.sprinting /\ strong /\ ~a.on_ground /\ a.fall_distance > 0)
            /\ a.result = "Sweeping" <=>
                  /\ ~a.sprinting /\ strong
                  /\ a.on_ground \/ a.fall_distance <= 0
                  /\ a.sword /\ combat.profile = "Modern"
            /\ a.result = "Weak" <=> ~strong
            /\ a.result \in {"Knockback", "Critical", "Sweeping", "Strong", "Weak"}
            /\ combat.profile = "Classic" => a.result \notin {"Weak", "Sweeping"}

C38_Witness ==
    /\ combat.profile = "Classic"
    /\ combat.attack.result = "Strong"
    /\ combat.attack.sword
    /\ combat.attack.attack_cooldown_progress = 0

\* C39: the InlineOnceHandler of run_task_later! executes its stored future
\* at most once, however often and however concurrently run() is called,
\* and a run() that finds the cancel flag set when it starts does not
\* execute it.
C39_StoredFutureAtMostOnce ==
    /\ once.awaited <= 1
    /\ Cardinality({r \in Runners : once.run[r].fut # "none"}) <= 1
    /\ \A r \in Runners :
          once.run[r].flag_at_start =>
              /\ once.run[r].pos = "idle"
              /\ once.run[r].fut = "none"
              /\ ~once.run[r].awaited

\* Two calls in flight together: one got the future and has executed it,
\* the other found None and has not returned yet; a third call found the
\* flag set.
C39_Witness ==
    /\ once.awaited = 1
    /\ once.run["r1"].awaited
    /\ once.run["r2"].pos = "await"
    /\ once.run["r2"].fut = "none"
    /\ once.run["r3"].flag_at_start
====
